---- MODULE Spec2Model ----
(***************************************************************************)
(* A model of the _pyrite document tooling: the obsidian-linter fixers     *)
(* (fix-links.py, fix-all.py, fix-obsidian-links.py), the linter           *)
(* (check.py) and validator (validate.py), the naming linter               *)
(* (naming-linter/rules) and the todoist plugin's work-effort creation.    *)
(*                                                                         *)
(* File contents are sequences of tokens.  Every token is a literal piece  *)
(* of the file's text, and the file is the concatenation of its tokens:    *)
(* "[", "]", "(", ")", "|", " ", "\t", "\n", "---", "-", a word, an        *)
(* identifier, a file stem or an Obsidian path.  The regular expressions   *)
(* of the source are evaluated token by token; what a token contains or    *)
(* starts with is read off its text (see Contains, StartsWith).            *)
(***************************************************************************)
EXTENDS Integers, Sequences, FiniteSets, TLC

VARIABLES
    files,      \* obsidian tools: the corpus, file -> content (token sequence)
    lastRun,    \* obsidian tools: what the last tool run did
    prevRun,    \* obsidian tools: the run before it
    nruns,      \* number of tool runs so far
    tree,       \* naming linter: one work effort folder on disk
    violations, \* naming linter: what the last validate() returned
    nfix,       \* naming linter: what the last run did
    wes,        \* plugin: the work efforts directory
    created,    \* plugin: the WorkEffort returned by the last create_work_effort
    idgen,      \* id generator: the _work_efforts directory and the last generation
    poll        \* poll.py: Todoist, the tasks fetched and the steps taken on them

vars == <<files, lastRun, prevRun, nruns, tree, violations, nfix, wes, created, idgen, poll>>

(***************************************************************************)
(* Bounds of the model.                                                    *)
(***************************************************************************)
MaxRuns == 2
MaxLines == 2

(***************************************************************************)
(* The identifiers and names of the corpus.                                *)
(***************************************************************************)
WE1 == "WE-260101-abcd"
WE2 == "WE-260102-wxyz"
TKT_D == "TKT-260101-001"
TKT_S == "TKT-abcd-001"
WE1_STEM == "WE-260101-abcd_index"
TKT_D_STEM == "TKT-260101-001_fix"
TKT_S_STEM == "TKT-abcd-001_fix"
WE1_DIR == "_work_efforts/WE-260101-abcd_demo"
WE1_PATH == "_work_efforts/WE-260101-abcd_demo/WE-260101-abcd_index"
TKT_D_PATH == "_work_efforts/WE-260101-abcd_demo/tickets/TKT-260101-001_fix"
TKT_S_PATH == "_work_efforts/WE-260101-abcd_demo/tickets/TKT-abcd-001_fix"
NOTE_PATH == "_work_efforts/notes"
WORD == "text"
PARENT_LABEL == "**Parent Work Effort**"
DESCRIPTION == "## Description"

\* The files of the corpus, by their path relative to the root, without ".md".
IndexFile == WE1_PATH
TicketFileD == TKT_D_PATH
TicketFileS == TKT_S_PATH
NoteFile == NOTE_PATH
AllFiles == {IndexFile, TicketFileD, TicketFileS, NoteFile}

\* Path.stem of a corpus file.
Stem(p) == CASE p = IndexFile -> WE1_STEM
             [] p = TicketFileD -> TKT_D_STEM
             [] p = TicketFileS -> TKT_S_STEM
             [] OTHER -> "notes"

(***************************************************************************)
(* What the text of a token contains.                                      *)
(***************************************************************************)
\* id in tok
Contains(tok, id) ==
    CASE id = WE1 -> tok \in {WE1, WE1_STEM, WE1_DIR, WE1_PATH, TKT_D_PATH, TKT_S_PATH}
      [] id = TKT_D -> tok \in {TKT_D, TKT_D_STEM, TKT_D_PATH}
      [] id = TKT_S -> tok \in {TKT_S, TKT_S_STEM, TKT_S_PATH}
      [] OTHER -> tok = id

\* tok.startswith(id)
StartsWith(tok, id) ==
    CASE id = WE1 -> tok \in {WE1, WE1_STEM}
      [] id = TKT_D -> tok \in {TKT_D, TKT_D_STEM}
      [] id = TKT_S -> tok \in {TKT_S, TKT_S_STEM}
      [] OTHER -> tok = id

\* tok.endswith(id + "_index")
EndsWithIndexOf(tok, id) == id = WE1 /\ tok \in {WE1_STEM, WE1_PATH}

Punct == {"[", "]", "(", ")", "|", " ", "\t", "\n", "---", "-", "/", "\"", "'"}
\* The first (last) character of the token is a word character (\w).
StartsWord(tok) == tok \notin Punct \union {PARENT_LABEL, DESCRIPTION, ":"}
EndsWord(tok) == tok \notin Punct \union {PARENT_LABEL, ":"}

IsSpace(tok) == tok \in {" ", "\t", "\n"}

(***************************************************************************)
(* Strings as token sequences.                                             *)
(***************************************************************************)
Max(S) == CHOOSE x \in S : \A y \in S : y <= x
Min(S) == CHOOSE x \in S : \A y \in S : x <= y

Has(s, tok) == \E i \in DOMAIN s : s[i] = tok

\* sub in s, for a sequence sub of tokens
HasSeq(s, sub) ==
    \E i \in 1..(Len(s) - Len(sub) + 1) : SubSeq(s, i, i + Len(sub) - 1) = sub

RECURSIVE Flatten(_)
Flatten(ss) == IF ss = <<>> THEN <<>> ELSE Head(ss) \o Flatten(Tail(ss))

\* smallest j >= i with s[j] = tok, 0 if there is none
FirstIdx(s, tok, i) ==
    LET c == {j \in i..Len(s) : s[j] = tok} IN IF c = {} THEN 0 ELSE Min(c)

\* s.split(sep)
RECURSIVE Split(_, _)
Split(s, sep) ==
    LET i == FirstIdx(s, sep, 1)
    IN IF i = 0 THEN <<s>>
       ELSE <<SubSeq(s, 1, i - 1)>> \o Split(SubSeq(s, i + 1, Len(s)), sep)

\* sep.join(parts)
RECURSIVE Join(_, _)
Join(parts, sep) ==
    IF parts = <<>> THEN <<>>
    ELSE IF Len(parts) = 1 THEN parts[1]
    ELSE parts[1] \o sep \o Join(Tail(parts), sep)

\* s.strip()
RECURSIVE LStrip(_)
LStrip(s) == IF s # <<>> /\ IsSpace(Head(s)) THEN LStrip(Tail(s)) ELSE s
RECURSIVE RStrip(_)
RStrip(s) ==
    IF s # <<>> /\ IsSpace(s[Len(s)]) THEN RStrip(SubSeq(s, 1, Len(s) - 1)) ELSE s
Strip(s) == LStrip(RStrip(s))

\* content[:pos].count('\n') + 1, for the token at index i
LineOf(s, i) == Cardinality({j \in 1..(i - 1) : s[j] = "\n"}) + 1

(***************************************************************************)
(* FRONTMATTER_PATTERN = ^---\s*\n(.*?)\n---\s*\n, matched at the start of *)
(* the content.  from..to is group 1, end the last token of the match.     *)
(***************************************************************************)
\* the last index of the maximal run of whitespace starting at i
SpaceRunEnd(s, i) ==
    LET stop == {j \in i..Len(s) : ~IsSpace(s[j])}
    IN IF i > Len(s) THEN i - 1 ELSE IF stop = {} THEN Len(s) ELSE Min(stop) - 1

\* \s*\n at i: the index of the "\n" the greedy match ends on, 0 if no match
LastNewlineInRun(s, i) ==
    LET c == {p \in i..SpaceRunEnd(s, i) : s[p] = "\n"}
    IN IF c = {} THEN 0 ELSE Max(c)

\* \n---\s*\n matches at q
FrontmatterCloses(s, q) ==
    /\ q + 1 <= Len(s)
    /\ s[q] = "\n"
    /\ s[q + 1] = "---"
    /\ LastNewlineInRun(s, q + 2) > 0

\* the positions q where \n---\s*\n closes a frontmatter opened at p
FrontmatterCloseSet(s, p) == {q \in (p + 1)..Len(s) : FrontmatterCloses(s, q)}

\* the match with the opening "\n" at p and the closing one at q
FrontmatterAt(s, p, q) ==
    [ok |-> TRUE, from |-> p + 1, to |-> q - 1, close |-> q + 1,
     end |-> LastNewlineInRun(s, q + 2)]

\* opens: the "\n" of the greedy \s*\n after the first "---" that leave a
\* close; the regex engine tries the longest first, then the nearest close.
FrontmatterAmong(s, opens) ==
    IF s = <<>> \/ s[1] # "---" \/ opens = {}
    THEN [ok |-> FALSE, from |-> 1, to |-> 0, close |-> 0, end |-> 0]
    ELSE FrontmatterAt(s, Max(opens), Min(FrontmatterCloseSet(s, Max(opens))))

FrontmatterMatch(s) ==
    FrontmatterAmong(s, {p \in 2..SpaceRunEnd(s, 2) :
                            s[p] = "\n" /\ FrontmatterCloseSet(s, p) # {}})

(***************************************************************************)
(* WIKILINK_PATTERN = \[\[([^\]]+?)\]\] and finditer over the content.     *)
(* A range <<a, b>> holds the indices of the first "[" and the last "]".   *)
(***************************************************************************)
WikilinkAt(s, i) ==
    IF i + 4 <= Len(s) /\ s[i] = "[" /\ s[i + 1] = "[" /\ s[i + 2] # "]"
    THEN LET j == FirstIdx(s, "]", i + 3)
         IN IF j > 0 /\ j + 1 <= Len(s) /\ s[j + 1] = "]" THEN j + 1 ELSE 0
    ELSE 0

RECURSIVE WikilinksFrom(_, _)
\* the match from j to e, then the matches after it
WikilinkNext(s, j, e) == <<<<j, e>>>> \o WikilinksFrom(s, e + 1)

WikilinksAmong(s, starts) ==
    IF starts = {} THEN <<>>
    ELSE WikilinkNext(s, Min(starts), WikilinkAt(s, Min(starts)))

WikilinksFrom(s, i) == WikilinksAmong(s, {j \in i..Len(s) : WikilinkAt(s, j) > 0})

WikilinkRanges(s) == WikilinksFrom(s, 1)

is_inside_wikilink(ranges, i) ==
    \E k \in DOMAIN ranges : ranges[k][1] <= i /\ i <= ranges[k][2]

\* is_in_frontmatter(pos): pos < frontmatter_end
is_in_frontmatter(content, i) == i <= FrontmatterMatch(content).end

(***************************************************************************)
(* The identifier patterns of the obsidian-linter tools, with their \b.    *)
(* TICKET_ID_PATTERN = \bTKT-([a-z0-9]{4})-(\d{3})\b matches the           *)
(* suffix-keyed ticket id only; WORK_EFFORT_ID_PATTERN matches WE ids.     *)
(***************************************************************************)
AtWordBoundaries(s, i) ==
    /\ ~(i > 1 /\ EndsWord(s[i - 1]))
    /\ ~(i < Len(s) /\ StartsWord(s[i + 1]))

TICKET_ID_PATTERN(s) == {i \in DOMAIN s : s[i] = TKT_S /\ AtWordBoundaries(s, i)}
WORK_EFFORT_ID_PATTERN(s) ==
    {i \in DOMAIN s : s[i] \in {WE1, WE2} /\ AtWordBoundaries(s, i)}

\* The elements of a set of indices in increasing order (finditer order).
Ascending(S) ==
    [k \in 1..Cardinality(S) |-> CHOOSE i \in S : Cardinality({j \in S : j <= i}) = k]

\* own_ticket_id: file_stem.split("_")[0] when the stem starts with "TKT-"
own_ticket_id(p) == CASE p = TicketFileD -> TKT_D
                      [] p = TicketFileS -> TKT_S
                      [] OTHER -> ""

\* own_we_id: WORK_EFFORT_ID_PATTERN.search(str(file_path)).  In a folder
\* WE-..._demo and a file WE-..._index.md the id is followed by "_", a word
\* character, so the trailing \b never matches and the search returns None.
own_we_id(p) == ""

\* Apply (start, end, text) replacements, given in descending order.
RECURSIVE ApplyReplacements(_, _)
ApplyReplacements(s, reps) ==
    IF reps = <<>> THEN s
    ELSE LET r == Head(reps)
         IN ApplyReplacements(
                SubSeq(s, 1, r.start - 1) \o r.text \o SubSeq(s, r.end + 1, Len(s)),
                Tail(reps))

\* sorted(replacements, reverse=True)
RECURSIVE SortedReverse(_)
SortedReverse(reps) ==
    IF reps = <<>> THEN <<>>
    ELSE LET k == CHOOSE k \in DOMAIN reps : \A j \in DOMAIN reps :
                      \/ reps[j].start < reps[k].start
                      \/ reps[j].start = reps[k].start /\ reps[j].end <= reps[k].end
         IN <<reps[k]>> \o
            SortedReverse(SubSeq(reps, 1, k - 1) \o SubSeq(reps, k + 1, Len(reps)))

(***************************************************************************)
(* The regular expressions of fix-obsidian-links.py, on tokens.  A pattern *)
(* is a sequence of elements: a literal token, a token containing an id,   *)
(* a token ending in <id>_index, a greedy repetition of a negated class    *)
(* (one or more, zero or more), \s*, ^ and $ (MULTILINE).  ReMatch         *)
(* backtracks in the order of Python's re: the longest repetition that     *)
(* lets the rest of the pattern match.                                     *)
(* It returns the position where each element starts followed by the       *)
(* position after the match, and <<>> when there is no match at i.         *)
(***************************************************************************)
Tok(t) == [k |-> "tok", t |-> t, min |-> 1]
HasId(id) == [k |-> "has", t |-> id, min |-> 1]
EndsIndex(id) == [k |-> "idx", t |-> id, min |-> 1]
NotPlus(t) == [k |-> "not", t |-> t, min |-> 1]
NotStar(t) == [k |-> "not", t |-> t, min |-> 0]
WsStar == [k |-> "ws", t |-> "", min |-> 0]
Bol == [k |-> "bol", t |-> "", min |-> 0]
Eol == [k |-> "eol", t |-> "", min |-> 0]
OneOf(S) == [k |-> "in", t |-> S, min |-> 1]

ElemTakes(e, tok) ==
    CASE e.k = "tok" -> tok = e.t
      [] e.k = "has" -> Contains(tok, e.t)
      [] e.k = "idx" -> EndsWithIndexOf(tok, e.t)
      [] e.k = "not" -> tok # e.t
      [] e.k = "ws" -> IsSpace(tok)
      [] e.k = "in" -> tok \in e.t
      [] OTHER -> FALSE

\* the number of consecutive tokens from i that the repetition e can take
RunLen(e, s, i) ==
    LET stop == {j \in i..Len(s) : ~ElemTakes(e, s[j])}
    IN IF i > Len(s) THEN 0 ELSE IF stop = {} THEN Len(s) - i + 1 ELSE Min(stop) - i

\* i put in front of the positions of a match of the rest of the pattern
Prepend(i, m) == IF m = <<>> THEN <<>> ELSE <<i>> \o m

RECURSIVE ReMatch(_, _, _, _)
\* a greedy repetition at i: ns holds the counts that let the rest match
ReGreedy(pat, k, s, i, ns) ==
    IF ns = {} THEN <<>> ELSE Prepend(i, ReMatch(pat, k + 1, s, i + Max(ns)))

ReMatch(pat, k, s, i) ==
    IF k > Len(pat) THEN <<i>>
    ELSE CASE pat[k].k \in {"tok", "has", "idx", "in"} ->
                  IF i <= Len(s) /\ ElemTakes(pat[k], s[i])
                  THEN Prepend(i, ReMatch(pat, k + 1, s, i + 1)) ELSE <<>>
           [] pat[k].k \in {"not", "ws"} ->
                  ReGreedy(pat, k, s, i,
                      {n \in pat[k].min..RunLen(pat[k], s, i) :
                          ReMatch(pat, k + 1, s, i + n) # <<>>})
           [] pat[k].k = "bol" ->
                  IF i = 1 \/ s[i - 1] = "\n"
                  THEN Prepend(i, ReMatch(pat, k + 1, s, i)) ELSE <<>>
           [] pat[k].k = "eol" ->
                  IF i = Len(s) + 1 \/ s[i] = "\n"
                  THEN Prepend(i, ReMatch(pat, k + 1, s, i)) ELSE <<>>
           [] OTHER -> <<>>

\* re.search(pat, s)
ReSearch(pat, s) == \E i \in 1..(Len(s) + 1) : ReMatch(pat, 1, s, i) # <<>>

\* The replacement template: literal tokens, and groups (the text matched
\* by the elements from..to of the pattern).
Lit(t) == [lit |-> t, from |-> 0, to |-> 0]
Lits(seq) == [j \in DOMAIN seq |-> Lit(seq[j])]
Group(a, b) == [lit |-> "", from |-> a, to |-> b]

ReExpand(repl, s, m) ==
    Flatten([j \in DOMAIN repl |->
        IF repl[j].from = 0 THEN <<repl[j].lit>>
        ELSE SubSeq(s, m[repl[j].from], m[repl[j].to + 1] - 1)])

\* re.sub(pat, repl, s): leftmost non-overlapping matches, scanning from i
RECURSIVE ReSubFrom(_, _, _, _)
\* the match m at j replaced, and the scan resumed after it
ReSubAt(pat, repl, s, i, j, m) ==
    SubSeq(s, i, j - 1) \o ReExpand(repl, s, m) \o ReSubFrom(pat, repl, s, m[Len(m)])

ReSubNext(pat, repl, s, i, starts) ==
    IF starts = {} THEN SubSeq(s, i, Len(s))
    ELSE ReSubAt(pat, repl, s, i, Min(starts), ReMatch(pat, 1, s, Min(starts)))

ReSubFrom(pat, repl, s, i) ==
    ReSubNext(pat, repl, s, i, {j \in i..Len(s) : ReMatch(pat, 1, s, j) # <<>>})

ReSub(pat, repl, s) == ReSubFrom(pat, repl, s, 1)

\* pattern.finditer(s): the matches, leftmost first, not overlapping
RECURSIVE ReFindFrom(_, _, _)
ReFindAfter(pat, s, m) == <<m>> \o ReFindFrom(pat, s, m[Len(m)])

ReFindNext(pat, s, starts) ==
    IF starts = {} THEN <<>> ELSE ReFindAfter(pat, s, ReMatch(pat, 1, s, Min(starts)))

ReFindFrom(pat, s, i) ==
    ReFindNext(pat, s, {j \in i..Len(s) : ReMatch(pat, 1, s, j) # <<>>})

ReFindAll(pat, s) == ReFindFrom(pat, s, 1)

(***************************************************************************)
(* fix-links.py: LinkFixer.                                                *)
(***************************************************************************)
TableLookback == 10

\* lines = content[:pos].split('\n'); the last one is the current line
LinkFixerInTableLines(lines) ==
    LET n == Len(lines)
        low == IF n - TableLookback > 0 THEN n - TableLookback ELSE 0
    IN /\ Has(lines[n], "|")
       /\ ~(Strip(lines[n]) # <<>> /\ Head(Strip(lines[n])) = "|")
       /\ ~Has(lines[n], "---")
       /\ \E k \in (low + 1)..(n - 1) : Has(lines[k + 1], "|") /\ Has(lines[k + 1], "---")

LinkFixer_is_in_table(i, content) ==
    LinkFixerInTableLines(Split(SubSeq(content, 1, i - 1), "\n"))

\* The stem of the file found for a ticket id, "" when there is none.
LinkFixerFullName(fs, ticket_id) ==
    LET found == {f \in fs : StartsWith(Stem(f), ticket_id)}
    IN IF found = {} THEN "" ELSE Stem(CHOOSE f \in found : TRUE)

\* The replacement for the ticket id at i whose file was found.
LinkFixerReplacement(content, i, ticket_id, full_name, in_table, ranges) ==
    IF is_inside_wikilink(ranges, i)
    THEN LET k == Min({k \in DOMAIN ranges : ranges[k][1] <= i /\ i <= ranges[k][2]})
             wl_start == ranges[k][1]
             wl_end == ranges[k][2]
             link_text == SubSeq(content, wl_start + 2, wl_end - 2)
         IN IF link_text = <<ticket_id>>
            THEN IF in_table
                 THEN <<[start |-> wl_start, end |-> wl_end,
                         text |-> <<"[", "[", full_name, "]", "]">>]>>
                 ELSE <<[start |-> wl_start, end |-> wl_end,
                         text |-> <<"[", "[", full_name, "|", ticket_id, "]", "]">>]>>
            ELSE IF /\ StartsWith(link_text[1], ticket_id)
                    /\ link_text[1] # ticket_id
                    /\ ~Has(link_text, "|")
                    /\ ~in_table
                 THEN <<[start |-> wl_start, end |-> wl_end,
                         text |-> <<"[", "[">> \o link_text \o <<"|", ticket_id, "]", "]">>]>>
                 ELSE <<>>
    ELSE IF in_table
         THEN <<[start |-> i, end |-> i, text |-> <<"[", "[", full_name, "]", "]">>]>>
         ELSE <<[start |-> i, end |-> i,
                 text |-> <<"[", "[", full_name, "|", ticket_id, "]", "]">>]>>

\* One iteration of the ticket loop: the replacements it appends.
LinkFixerTicketStep(fs, p, content, i) ==
    IF \/ is_in_frontmatter(content, i)
       \/ content[i] = own_ticket_id(p)
       \/ LinkFixerFullName(fs, content[i]) = ""
    THEN <<>>
    ELSE LinkFixerReplacement(content, i, content[i], LinkFixerFullName(fs, content[i]),
                              LinkFixer_is_in_table(i, content), WikilinkRanges(content))

\* One iteration of the work effort loop.
LinkFixerWorkEffortStep(fs, p, content, i) ==
    IF \/ is_inside_wikilink(WikilinkRanges(content), i)
       \/ is_in_frontmatter(content, i)
       \/ content[i] = own_we_id(p)
       \/ ~\E f \in fs : Contains(f, content[i]) \/ StartsWith(Stem(f), content[i])
    THEN <<>>
    ELSE <<[start |-> i, end |-> i, text |-> <<"[", "[", content[i], "]", "]">>]>>

\* The replacements of the two loops, for the matches tk and we in order.
LinkFixerReplacements(fs, p, content, tk, we) ==
    Flatten([k \in DOMAIN tk |-> LinkFixerTicketStep(fs, p, content, tk[k])])
    \o Flatten([k \in DOMAIN we |-> LinkFixerWorkEffortStep(fs, p, content, we[k])])

\* _fix_file: the content the file has after the pass (written unless dry_run).
LinkFixer_fix_file(fs, p, content) ==
    ApplyReplacements(content, SortedReverse(
        LinkFixerReplacements(fs, p, content,
            Ascending(TICKET_ID_PATTERN(content)),
            Ascending(WORK_EFFORT_ID_PATTERN(content)))))

(***************************************************************************)
(* fix-all.py: ObsidianFixer.                                              *)
(***************************************************************************)
\* the last index of the maximal run of " " starting at i
BlankRunEnd(s, i) ==
    LET stop == {j \in i..Len(s) : s[j] # " "}
    IN IF stop = {} THEN Len(s) ELSE Min(stop) - 1

\* TRAILING_WHITESPACE_PATTERN = ' +$' (MULTILINE): the spaces it matches
TRAILING_WHITESPACE_PATTERN(s) ==
    {i \in DOMAIN s : s[i] = " " /\
        LET e == BlankRunEnd(s, i) IN e = Len(s) \/ s[e + 1] = "\n"}

\* s without the tokens at the indices in I
Without(s, I) == LET keep == Ascending(DOMAIN s \ I) IN [k \in DOMAIN keep |-> s[keep[k]]]

\* fixed: the content without its trailing spaces
ObsidianFixerFinalNewline(fixed) ==
    IF fixed # <<>> /\ fixed[Len(fixed)] # "\n" THEN fixed \o <<"\n">> ELSE fixed

ObsidianFixer_fix_formatting(content) ==
    ObsidianFixerFinalNewline(Without(content, TRAILING_WHITESPACE_PATTERN(content)))

\* One iteration of the ticket loop.
ObsidianFixerTicketStep(fs, p, content, i) ==
    IF \/ is_inside_wikilink(WikilinkRanges(content), i)
       \/ is_in_frontmatter(content, i)
       \/ content[i] = own_ticket_id(p)
       \/ ~\E f \in fs : StartsWith(Stem(f), content[i])
    THEN <<>>
    ELSE <<[start |-> i, end |-> i, text |-> <<"[", "[", content[i], "]", "]">>]>>

\* The replacements of the two loops; the work effort loop is the one of
\* fix-links.py, line for line.
ObsidianFixerReplacements(fs, p, content, tk, we) ==
    Flatten([k \in DOMAIN tk |-> ObsidianFixerTicketStep(fs, p, content, tk[k])])
    \o Flatten([k \in DOMAIN we |-> LinkFixerWorkEffortStep(fs, p, content, we[k])])

ObsidianFixer_fix_unlinked_references(fs, p, content) ==
    ApplyReplacements(content, SortedReverse(
        ObsidianFixerReplacements(fs, p, content,
            Ascending(TICKET_ID_PATTERN(content)),
            Ascending(WORK_EFFORT_ID_PATTERN(content)))))

\* _fix_file: formatting first, then unlinked references.
ObsidianFixer_fix_file(fs, p, content) ==
    ObsidianFixer_fix_unlinked_references(fs, p, ObsidianFixer_fix_formatting(content))

(***************************************************************************)
(* fix-obsidian-links.py: ObsidianLinkFixer.                               *)
(***************************************************************************)
\* _build_indexes: the WE folder's index file, and the tickets whose file
\* name matches TKT-(\d{6})-(\d{3})_(.+)\.md (the date-keyed ones).
we_index_map(fs) == [id \in (IF IndexFile \in fs THEN {WE1} ELSE {}) |-> WE1_PATH]
ticket_map(fs) == [id \in (IF TicketFileD \in fs THEN {TKT_D} ELSE {}) |-> TKT_D_PATH]

AliasLink(path, id) == <<"[", "[", path, "|", id, "]", "]">>

\* for id, path in map.items(): the indexes of this corpus hold at most one
\* entry (one work effort, one date-keyed ticket), so the loop runs at most once.
ForEach(Step(_, _, _), map, content) ==
    IF DOMAIN map = {} THEN content
    ELSE LET id == CHOOSE id \in DOMAIN map : TRUE
         IN Step(id, map[id], content)

\* the frontmatter text with [[x|alias]] turned into alias and [[x]] into x
UnlinkFrontmatter(frontmatter) ==
    ReSub(<<Tok("["), Tok("["), NotPlus("]"), Tok("]"), Tok("]")>>, <<Group(3, 3)>>,
        ReSub(<<Tok("["), Tok("["), NotPlus("]"), Tok("|"), NotPlus("]"), Tok("]"), Tok("]")>>,
              <<Group(5, 5)>>, frontmatter))

\* fm: the match of the frontmatter pattern on the content
FixFrontmatterAt(content, fm) ==
    IF ~fm.ok THEN content
    ELSE SubSeq(content, 1, fm.from - 1)
         \o UnlinkFrontmatter(SubSeq(content, fm.from, fm.to))
         \o SubSeq(content, fm.to + 1, Len(content))

fix_frontmatter(content) == FixFrontmatterAt(content, FrontmatterMatch(content))

WorkEffortLinkStep(we_id, obsidian_path, content) ==
    LET wrong_path == <<Tok("["), Tok("["), NotStar("]"), HasId(we_id), NotStar("]"),
                        Tok("|"), Tok(we_id), Tok("]"), Tok("]")>>
        no_alias == <<Tok("["), Tok("["), NotStar("]"), EndsIndex(we_id), Tok("]"), Tok("]")>>
        just_id == <<Tok("["), Tok("["), Tok(we_id), Tok("]"), Tok("]")>>
        link == Lits(AliasLink(obsidian_path, we_id))
    IN ReSub(just_id, link, ReSub(no_alias, link, ReSub(wrong_path, link, content)))

fix_work_effort_links(fs, content) == ForEach(WorkEffortLinkStep, we_index_map(fs), content)

TicketLinkStep(ticket_id, obsidian_path, content) ==
    LET wrong_path == <<Tok("["), Tok("["), NotStar("]"), HasId(ticket_id), NotStar("]"),
                        Tok("|"), Tok(ticket_id), Tok("]"), Tok("]")>>
        just_id == <<Tok("["), Tok("["), Tok(ticket_id), Tok("]"), Tok("]")>>
        link == Lits(AliasLink(obsidian_path, ticket_id))
    IN ReSub(just_id, link, ReSub(wrong_path, link, content))

fix_ticket_links(fs, content) == ForEach(TicketLinkStep, ticket_map(fs), content)

TripleBracket ==
    <<Tok("["), Tok("["), Tok("["), NotPlus("]"), Tok("]"), Tok("]"), Tok("]")>>
InParens == <<Tok("("), NotPlus(")"), Tok(")")>>

RECURSIVE RemoveTripleBrackets(_)
RemoveTripleBrackets(line) ==
    IF ReSearch(TripleBracket, line)
    THEN RemoveTripleBrackets(ReSub(TripleBracket, <<>>, line))
    ELSE line

\* The first pass over a table row: the malformed link patterns removed.
CleanTableRow(line) ==
    ReSub(<<Tok("["), Tok("["), NotPlus("]"), Tok("]"), Tok("]")>> \o InParens, <<>>,
        ReSub(TripleBracket \o InParens, <<>>,
            ReSub(TripleBracket \o InParens \o <<Tok("]")>> \o InParens, <<>>,
                RemoveTripleBrackets(line))))

\* an empty first and an empty last cell dropped
DropEmptyLast(cells) ==
    IF Len(cells) > 0 /\ cells[Len(cells)] = <<>>
    THEN SubSeq(cells, 1, Len(cells) - 1) ELSE cells
DropEmptyEnds(cells) ==
    DropEmptyLast(IF Len(cells) > 0 /\ cells[1] = <<>> THEN Tail(cells) ELSE cells)

StripAll(parts) == [k \in DOMAIN parts |-> Strip(parts[k])]

\* cells of a row: split on "|", stripped, an empty first and last one dropped
TableCells(line) == DropEmptyEnds(StripAll(Split(line, "|")))

\* re.sub of the wikilink and of the HTML link to the ticket, on one cell
WithoutTicketLinks(ticket_id, cell) ==
    ReSub(<<Tok("["), Tok(ticket_id), Tok("]")>> \o InParens, <<>>,
        ReSub(<<Tok("["), Tok("["), NotPlus("]"), Tok("|"), Tok(ticket_id), Tok("]"), Tok("]")>>,
              <<>>, cell))

\* the first cell of the row: id_cell is what is left of it without links
TableIdCell(ticket_id, obsidian_path, cell, id_cell) ==
    IF id_cell = <<>> \/ \E j \in DOMAIN id_cell : Contains(id_cell[j], ticket_id)
    THEN <<"[", ticket_id, "]", "(", obsidian_path, ")">>
    ELSE cell

\* One ticket's pass over the cells of a row.
TableTicketStep(ticket_id, obsidian_path, cells) ==
    IF ~\E k \in DOMAIN cells : \E j \in DOMAIN cells[k] : Contains(cells[k][j], ticket_id)
    THEN cells
    ELSE [k \in DOMAIN cells |->
             IF k = 1
             THEN TableIdCell(ticket_id, obsidian_path, cells[1],
                      Strip(ReSub(TripleBracket, <<>>, WithoutTicketLinks(ticket_id, cells[1]))))
             ELSE Strip(WithoutTicketLinks(ticket_id, cells[k]))]

\* the row rebuilt from its cells, or left as cleaned when it has fewer than two
TableRow(tickets, fixed_line, cells) ==
    IF Len(cells) < 2 THEN fixed_line
    ELSE <<"|", " ">>
         \o Join(ForEach(TableTicketStep, tickets, cells), <<" ", "|", " ">>)
         \o <<" ", "|">>

TableRowOf(tickets, fixed_line) == TableRow(tickets, fixed_line, TableCells(fixed_line))

\* One iteration of the loop over the lines: the line appended to
\* fixed_lines and the value in_table has afterwards.
TableLineStep(tickets, line, in_table) ==
    IF Has(line, "|") /\ Has(line, "---")
    THEN [line |-> line, in_table |-> TRUE]
    ELSE IF in_table /\ Strip(line) # <<>> /\ ~Has(line, "|")
    THEN [line |-> line, in_table |-> FALSE]
    ELSE IF in_table /\ Has(line, "|")
    THEN [line |-> TableRowOf(tickets, CleanTableRow(line)), in_table |-> in_table]
    ELSE [line |-> line, in_table |-> in_table]

\* The loop over the lines; in_table is carried from line to line.
RECURSIVE TableLines(_, _, _)
TableLinesAfter(tickets, lines, step) ==
    <<step.line>> \o TableLines(tickets, Tail(lines), step.in_table)

TableLines(tickets, lines, in_table) ==
    IF lines = <<>> THEN <<>>
    ELSE TableLinesAfter(tickets, lines, TableLineStep(tickets, Head(lines), in_table))

BulletStep(ticket_id, obsidian_path, content) ==
    ReSub(<<Bol, WsStar, Tok("-"), WsStar, Tok(ticket_id), WsStar, Eol>>,
          <<Group(2, 3)>> \o Lits(<<" ", "[", "[", obsidian_path, "|">>)
              \o <<Group(5, 5), Lit("]"), Lit("]"), Group(6, 6)>>,
          content)

\* tickets: the tickets of this work effort
FixTicketTablesFor(tickets, content) ==
    IF DOMAIN tickets = {} THEN content
    ELSE ForEach(BulletStep, tickets,
             Join(TableLines(tickets, Split(content, "\n"), FALSE), <<"\n">>))

\* fix_ticket_tables(content, we_id) for the index file of WE1
fix_ticket_tables(fs, content) == FixTicketTablesFor(ticket_map(fs), content)

\* replace_unlinked_we / replace_unlinked_ticket: the match at i is left alone
\* when the last "[[" before it has no "]]" after it.
InOpenLink(body, i) ==
    LET opens == {a \in 1..(i - 2) : body[a] = "[" /\ body[a + 1] = "["}
    IN opens # {} /\
       ~\E b \in Max(opens)..(i - 2) : body[b] = "]" /\ body[b + 1] = "]"

UnlinkedStep(id, obsidian_path, body) ==
    LET at == Ascending({i \in DOMAIN body :
                  body[i] = id /\ AtWordBoundaries(body, i) /\ ~InOpenLink(body, i)})
        reps == [k \in DOMAIN at |->
                    [start |-> at[k], end |-> at[k], text |-> AliasLink(obsidian_path, id)]]
    IN ApplyReplacements(body, SortedReverse(reps))

\* body_start: the last token of the frontmatter (0 when there is none)
ConvertUnlinkedAfter(fs, content, body_start) ==
    SubSeq(content, 1, body_start)
    \o ForEach(UnlinkedStep, ticket_map(fs),
           ForEach(UnlinkedStep, we_index_map(fs),
               SubSeq(content, body_start + 1, Len(content))))

convert_unlinked_references(fs, content) ==
    ConvertUnlinkedAfter(fs, content, FrontmatterMatch(content).end)

ensure_ticket_parent_links(fs, content, parent_we_id) ==
    LET we_path == we_index_map(fs)[parent_we_id]
        link == <<PARENT_LABEL, ":", " ">> \o AliasLink(we_path, parent_we_id)
        frontmatter_end == FirstIdx(content, "---", 2)
        insert_pos == FirstIdx(content, "\n", frontmatter_end + 1)
    IN IF parent_we_id \notin DOMAIN we_index_map(fs) THEN content
       ELSE IF HasSeq(content, <<"[", "[", we_path>>) \/ Has(content, PARENT_LABEL) THEN content
       ELSE IF Has(content, DESCRIPTION)
       THEN ReSub(<<Tok(DESCRIPTION)>>, Lits(link \o <<"\n", "\n", DESCRIPTION>>), content)
       ELSE IF frontmatter_end > 0
       THEN SubSeq(content, 1, insert_pos) \o <<"\n">> \o link \o <<"\n">>
            \o SubSeq(content, insert_pos + 1, Len(content))
       ELSE content

\* the token after "parent:" and its whitespace, for "parent" at i
ParentValueAt(content, i) == content[SpaceRunEnd(content, i + 2) + 1]

\* the positions in the frontmatter fm.from..fm.to where the pattern matches
ParentHits(content, fm) ==
    {i \in fm.from..fm.to :
        /\ content[i] = "parent"
        /\ i + 1 <= fm.to /\ content[i + 1] = ":"
        /\ SpaceRunEnd(content, i + 2) + 1 <= fm.to
        /\ \E w \in {WE1, WE2} : StartsWith(ParentValueAt(content, i), w)}

ParentAmong(content, hits) ==
    IF hits = {} THEN ""
    ELSE CHOOSE w \in {WE1, WE2} : StartsWith(ParentValueAt(content, Min(hits)), w)

ParentIn(content, fm) ==
    IF ~fm.ok THEN "" ELSE ParentAmong(content, ParentHits(content, fm))

\* parent: re.search(r'parent:\s*(WE-\d{6}-[a-z0-9]{4})') in the frontmatter
ParentInFrontmatter(content) == ParentIn(content, FrontmatterMatch(content))

\* if is_index and we_id: fix_ticket_tables on the content c the three link
\* fixes left
FixFileTables(fs, p, c) == IF p = IndexFile THEN fix_ticket_tables(fs, c) ELSE c

\* the last two fixes; parent_we_id is "" unless the file is a date-keyed
\* ticket whose frontmatter names a parent
FixFileRest(fs, c, parent_we_id) ==
    convert_unlinked_references(fs,
        IF parent_we_id # "" THEN ensure_ticket_parent_links(fs, c, parent_we_id) ELSE c)

\* fix_file: the content the file has after the pass (written unless dry_run).
ObsidianLinkFixer_fix_file(fs, p, content) ==
    FixFileRest(fs,
        FixFileTables(fs, p,
            fix_ticket_links(fs, fix_work_effort_links(fs, fix_frontmatter(content)))),
        IF p = TicketFileD THEN ParentInFrontmatter(content) ELSE "")

(***************************************************************************)
(* The corpus of the link fixers: a work effort index, a date-keyed and a  *)
(* suffix-keyed ticket, and a note.  One document, the subject, is made of *)
(* an optional table header and up to MaxLines lines: bare mentions, table *)
(* rows with and without a leading "|", wikilinks with and without alias,  *)
(* a bullet, a mention of a work effort that has no file.                  *)
(***************************************************************************)
Frontmatter(id) == <<"---", "\n", "id", ":", " ", id, "\n", "---", "\n">>
TableHeader == <<"|", " ", WORD, " ", "|", " ", WORD, " ", "|", "\n",
                 "|", "---", "|", "---", "|", "\n">>

LineTemplates ==
    { <<WORD, " ", TKT_S, " ", WORD>>,
      <<WORD, " ", TKT_D, " ", WE1>>,
      <<"|", " ", TKT_S, " ", "|", " ", WORD, " ", "|">>,
      <<"|", " ", TKT_D, " ", "|", " ", WORD, " ", "|">>,
      <<WORD, " ", "|", " ", TKT_S, " ", "|", " ", WORD>>,
      <<"[", "[", TKT_S, "]", "]", " ", "[", "[", WE1, "]", "]">>,
      <<"[", "[", TKT_S_STEM, "|", TKT_S, "]", "]">>,
      <<"-", " ", TKT_D>>,
      <<WE2, " ">> }

Bodies ==
    {Join(ls, <<"\n">>) \o <<"\n">> :
        ls \in UNION {[1..n -> LineTemplates] : n \in 1..MaxLines}}

DefaultContent(p) ==
    CASE p = IndexFile -> Frontmatter(WE1) \o <<WORD, "\n">>
      [] p = TicketFileD -> Frontmatter(TKT_D) \o <<WORD, "\n">>
      [] p = TicketFileS -> Frontmatter(TKT_S) \o <<WORD, "\n">>
      [] OTHER -> <<WORD, "\n">>

SubjectContent(p, table, body) ==
    (IF p = IndexFile THEN Frontmatter(WE1) ELSE <<>>)
    \o (IF table THEN TableHeader ELSE <<>>) \o body

NoRun == [tool |-> "none", dry |-> FALSE, before |-> <<>>, result |-> <<>>]

\* The variables of the other tools, at rest.
NamingIdle == tree = <<>> /\ violations = <<>> /\ nfix = 0
PluginIdle == wes = {} /\ created = <<>>
IdsIdle == idgen = <<>>
PollIdle == poll = <<>>
LinksIdle == files = <<>> /\ lastRun = NoRun /\ prevRun = NoRun

\* Ticket documents that name their parent in the frontmatter, as a plain
\* value or as a wikilink, one with a "---" inside a value; a body that is
\* empty, plain, with one or two description headings, with the label of the
\* back-link or with the back-link; and the frontmatter alone, without the
\* newline after its closing delimiter.
ParentValues == {<<WE1>>, <<"[", "[", WE1, "]", "]">>}

TicketFrontmatter(id, value) ==
    <<"---", "\n", "id", ":", " ", id, "\n", "parent", ":", " ">> \o value
    \o <<"\n", "---", "\n">>

TicketFrontmatterWithRule(id) ==
    <<"---", "\n", "id", ":", " ", id, "\n", "title", ":", " ", WORD, " ", "---", " ", WORD,
      "\n", "parent", ":", " ", WE1, "\n", "---", "\n">>

TicketHeaders(id) ==
    {TicketFrontmatter(id, v) : v \in ParentValues} \cup {TicketFrontmatterWithRule(id)}

TicketBodies ==
    { <<>>,
      <<WORD, "\n">>,
      <<DESCRIPTION, "\n", WORD, "\n">>,
      <<DESCRIPTION, "\n", WORD, "\n", DESCRIPTION, "\n">>,
      <<PARENT_LABEL, ":", " ", WORD, "\n">>,
      <<"[", "[", WE1_PATH, "|", WE1, "]", "]", "\n">> }

TicketContents(id) ==
    {h \o b : h \in TicketHeaders(id), b \in TicketBodies}
    \cup {SubSeq(h, 1, Len(h) - 1) : h \in TicketHeaders(id)}

TicketCorporaOf(subject, contents) ==
    {[p \in AllFiles |-> IF p = subject THEN c ELSE DefaultContent(p)] : c \in contents}

TicketCorpora ==
    TicketCorporaOf(TicketFileD, TicketContents(TKT_D))
    \cup TicketCorporaOf(TicketFileS, TicketContents(TKT_S))

\* a work effort folder that holds a ticket and no index file, and the note
FixCorporaWithoutIndex ==
    {[p \in {TicketFileS, NoteFile} |->
         IF p = NoteFile THEN SubjectContent(p, table, body) ELSE DefaultContent(p)] :
        table \in BOOLEAN, body \in Bodies}

\* the corpora the fixers are run on
FixCorpora ==
    {[p \in present |->
         IF p = subject THEN SubjectContent(p, table, body) ELSE DefaultContent(p)] :
        present \in {AllFiles, {IndexFile, NoteFile}}, subject \in {IndexFile, NoteFile},
        table \in BOOLEAN, body \in Bodies}
    \cup FixCorporaWithoutIndex \cup TicketCorpora

InitFix ==
    /\ files \in FixCorpora
    /\ lastRun = NoRun
    /\ prevRun = NoRun
    /\ nruns = 0
    /\ NamingIdle
    /\ PluginIdle
    /\ IdsIdle
    /\ PollIdle

\* A fixer without the test of dry_run before the write: the result is
\* written in every mode.
FixerRunWritingAlways(tool, dry, result) ==
    /\ nruns < MaxRuns
    /\ files' = result
    /\ lastRun' = [tool |-> tool, dry |-> dry, before |-> files, result |-> result]
    /\ prevRun' = lastRun
    /\ nruns' = nruns + 1
    /\ UNCHANGED <<tree, violations, nfix, wes, created, idgen, poll>>

\* One run of a fixer over every markdown file in scope: result holds what
\* its _fix_file computes for each file, written unless dry_run.
FixerRun(tool, dry, result) ==
    /\ nruns < MaxRuns
    /\ files' = IF dry THEN files ELSE result
    /\ lastRun' = [tool |-> tool, dry |-> dry, before |-> files, result |-> result]
    /\ prevRun' = lastRun
    /\ nruns' = nruns + 1
    /\ UNCHANGED <<tree, violations, nfix, wes, created, idgen, poll>>

\* fix-links.py main: LinkFixer(...).fix_all()
FixLinks ==
    \E dry \in BOOLEAN :
        FixerRun("fix-links", dry,
            [p \in DOMAIN files |-> LinkFixer_fix_file(DOMAIN files, p, files[p])])
\* fix-all.py main: ObsidianFixer(...).fix_all()
FixAll ==
    \E dry \in BOOLEAN :
        FixerRun("fix-all", dry,
            [p \in DOMAIN files |-> ObsidianFixer_fix_file(DOMAIN files, p, files[p])])
\* fix-obsidian-links.py main: ObsidianLinkFixer(...).run()
FixObsidianLinks ==
    \E dry \in BOOLEAN :
        FixerRun("fix-obsidian-links", dry,
            [p \in DOMAIN files |-> ObsidianLinkFixer_fix_file(DOMAIN files, p, files[p])])

NextFix == FixLinks \/ FixAll \/ FixObsidianLinks

SpecFix == InitFix /\ [][NextFix]_vars

(***************************************************************************)
(* Claims about the link fixers (SpecFix).                                 *)
(***************************************************************************)
Fixers == {"fix-links", "fix-all", "fix-obsidian-links"}

\* C1: running a link fixer twice in succession on the same corpus changes
\* no file on the second run.
C1_SecondRunChangesNothing ==
    (/\ lastRun.tool \in Fixers
     /\ prevRun.tool = lastRun.tool
     /\ ~lastRun.dry
     /\ ~prevRun.dry) => files = lastRun.before

\* Line k is a row of a markdown table: it contains "|", is no separator row,
\* and follows a header-separator row through rows of the same table.
IsTableRow(lines, k) ==
    /\ Has(lines[k], "|")
    /\ ~Has(lines[k], "---")
    /\ \E j \in 1..(k - 1) :
          /\ Has(lines[j], "|") /\ Has(lines[j], "---")
          /\ \A m \in (j + 1)..k : Has(lines[m], "|")

PipeCount(line) == Cardinality({i \in DOMAIN line : line[i] = "|"})

\* The line mentions a ticket id outside any wikilink.
HasBareTicket(line) ==
    \E i \in DOMAIN line :
        /\ line[i] \in {TKT_S, TKT_D}
        /\ AtWordBoundaries(line, i)
        /\ ~is_inside_wikilink(WikilinkRanges(line), i)

\* C3: a fix pass that rewrites a table row holding a bare ticket id leaves
\* the row with the same number of "|" column delimiters.
C3_TableRowKeepsColumns ==
    (lastRun.tool \in {"fix-links", "fix-obsidian-links"} /\ ~lastRun.dry) =>
        \A p \in DOMAIN files :
            LET before == Split(lastRun.before[p], "\n")
                after == Split(files[p], "\n")
            IN Len(before) = Len(after) =>
                 \A k \in DOMAIN before :
                     (IsTableRow(before, k) /\ HasBareTicket(before[k])
                         /\ after[k] # before[k])
                     => PipeCount(after[k]) = PipeCount(before[k])

(***************************************************************************)
(* Names as text.  A name token is a concatenation of pieces, so that a    *)
(* link target can be extended by "_index" or ".md" and looked up in the   *)
(* index of the corpus, whose keys are built from the file paths.          *)
(***************************************************************************)
Pieces(tok) ==
    CASE tok = WE1_STEM -> <<WE1, "_index">>
      [] tok = TKT_D_STEM -> <<TKT_D, "_fix">>
      [] tok = TKT_S_STEM -> <<TKT_S, "_fix">>
      [] tok = WE1_DIR -> <<"_work_efforts", "/", WE1, "_demo">>
      [] tok = WE1_PATH -> <<"_work_efforts", "/", WE1, "_demo", "/", WE1, "_index">>
      [] tok = TKT_D_PATH ->
             <<"_work_efforts", "/", WE1, "_demo", "/", "tickets", "/", TKT_D, "_fix">>
      [] tok = TKT_S_PATH ->
             <<"_work_efforts", "/", WE1, "_demo", "/", "tickets", "/", TKT_S, "_fix">>
      [] tok = NOTE_PATH -> <<"_work_efforts", "/", "notes">>
      [] OTHER -> <<tok>>

\* the text of a token sequence, in pieces
TextOf(s) == Flatten([k \in DOMAIN s |-> Pieces(s[k])])

\* sorted(files): the files of the corpus in the order of their paths
FileOrder == <<IndexFile, TicketFileD, TicketFileS, NoteFile>>
SortedFiles(fs) == SelectSeq(FileOrder, LAMBDA f : f \in fs)

(***************************************************************************)
(* check.py: ObsidianLinter.  The report holds the issues of the wikilink, *)
(* task-list and formatting checks; the frontmatter and heading checks     *)
(* write nothing and never set fix_available.                              *)
(***************************************************************************)
\* _index_markdown_files: stem, relative path, relative path without suffix
markdown_files(fs) ==
    UNION {{Pieces(Stem(f)), Pieces(f) \o <<".md">>, Pieces(f)} : f \in fs}

\* target of [[target|alias]] or [[target]], stripped
LinkTarget(link_text) ==
    Strip(IF Has(link_text, "|")
          THEN SubSeq(link_text, 1, FirstIdx(link_text, "|", 1) - 1)
          ELSE link_text)

Issue(p, line, severity, category, kind, text, fix) ==
    [file |-> p, line |-> line, severity |-> severity, category |-> category,
     kind |-> kind, text |-> text, fix_available |-> fix]

\* One iteration of the loop of _check_wikilinks, for the match at r.
LinterWikilinkStep(keys, p, content, r) ==
    IF TextOf(LinkTarget(SubSeq(content, r[1] + 2, r[2] - 2))) \in keys THEN <<>>
    ELSE <<Issue(p, LineOf(content, r[1]), "warning", "wikilink", "broken",
                 SubSeq(content, r[1] + 2, r[2] - 2), FALSE)>>

LinterWikilinkIssues(keys, p, content, ranges) ==
    Flatten([k \in DOMAIN ranges |-> LinterWikilinkStep(keys, p, content, ranges[k])])

ObsidianLinter_check_wikilinks(fs, p, content) ==
    LinterWikilinkIssues(markdown_files(fs), p, content, WikilinkRanges(content))

\* possible_paths of the work effort loop of _check_unlinked_references
WorkEffortKeys(we_id) ==
    {<<we_id>>, <<we_id, "_index">>, <<we_id, "/", we_id, "_index">>,
     <<we_id, "/", we_id, "_index", ".md">>}

LinterTicketStep(fs, p, content, i) ==
    IF \/ is_inside_wikilink(WikilinkRanges(content), i)
       \/ is_in_frontmatter(content, i)
       \/ content[i] = own_ticket_id(p)
       \/ ~\E f \in fs : StartsWith(Stem(f), content[i])
    THEN <<>>
    ELSE <<Issue(p, LineOf(content, i), "info", "wikilink", "unlinked", <<content[i]>>, FALSE)>>

LinterWorkEffortStep(fs, p, content, i) ==
    IF \/ is_inside_wikilink(WikilinkRanges(content), i)
       \/ is_in_frontmatter(content, i)
       \/ content[i] = own_we_id(p)
       \/ WorkEffortKeys(content[i]) \cap markdown_files(fs) = {}
    THEN <<>>
    ELSE <<Issue(p, LineOf(content, i), "info", "wikilink", "unlinked", <<content[i]>>, FALSE)>>

LinterUnlinkedIssues(fs, p, content, tk, we) ==
    Flatten([k \in DOMAIN tk |-> LinterTicketStep(fs, p, content, tk[k])])
    \o Flatten([k \in DOMAIN we |-> LinterWorkEffortStep(fs, p, content, we[k])])

ObsidianLinter_check_unlinked_references(fs, p, content) ==
    LinterUnlinkedIssues(fs, p, content,
        Ascending(TICKET_ID_PATTERN(content)), Ascending(WORK_EFFORT_ID_PATTERN(content)))

\* TASK_LIST_PATTERN = ^(\s*)- \[([ xX])\](.*)$ (MULTILINE); the corpus has
\* no code fence, so no match is skipped as part of a code block.
TASK_LIST_PATTERN ==
    <<Bol, WsStar, Tok("-"), Tok(" "), Tok("["), OneOf({" ", "x", "X"}), Tok("]"),
      NotStar("\n"), Eol>>

\* One iteration of the loop of _check_task_lists, for the match m.
LinterTaskStep(p, content, m) ==
    (IF content[m[6]] = "X"
     THEN <<Issue(p, LineOf(content, m[1]), "info", "task_list", "uppercase", <<>>, TRUE)>>
     ELSE <<>>)
    \o (IF m[9] > m[8] /\ content[m[8]] # " "
        THEN <<Issue(p, LineOf(content, m[1]), "info", "task_list", "missing_space",
                     <<>>, TRUE)>>
        ELSE <<>>)

LinterTaskIssues(p, content, ms) ==
    Flatten([k \in DOMAIN ms |-> LinterTaskStep(p, content, ms[k])])
    \o (IF {"x", "X"} \subseteq {content[ms[k][6]] : k \in DOMAIN ms}
        THEN <<Issue(p, 0, "info", "task_list", "mixed", <<>>, FALSE)>>
        ELSE <<>>)

ObsidianLinter_check_task_lists(p, content) ==
    LinterTaskIssues(p, content, ReFindAll(TASK_LIST_PATTERN, content))

\* the numbers of the lines that end with " " or "\t"
TrailingWsLines(lines) ==
    {k \in DOMAIN lines : lines[k] # <<>> /\ lines[k][Len(lines[k])] \in {" ", "\t"}}

EndsWithNewline(content) == content # <<>> /\ content[Len(content)] = "\n"

\* _check_formatting: the issues, and fixed_content (the content when no fix)
LinterFormattingIssues(p, content, ws) ==
    (IF ws # {}
     THEN <<Issue(p, Min(ws), "info", "formatting", "trailing_ws", <<>>, TRUE)>>
     ELSE <<>>)
    \o (IF ~EndsWithNewline(content)
        THEN <<Issue(p, 0, "info", "formatting", "final_newline", <<>>, TRUE)>>
        ELSE <<>>)

LinterFormattingFix(content, ws) ==
    (IF ws # {} THEN Without(content, TRAILING_WHITESPACE_PATTERN(content)) ELSE content)
    \o (IF ~EndsWithNewline(content) THEN <<"\n">> ELSE <<>>)

ObsidianLinter_check_formatting(p, content) ==
    [issues |-> LinterFormattingIssues(p, content, TrailingWsLines(Split(content, "\n"))),
     fixed_content |-> LinterFormattingFix(content, TrailingWsLines(Split(content, "\n")))]

\* lint_file: the issues it returns, and the content of the file after it
LintFileIssues(fs, p, content) ==
    ObsidianLinter_check_wikilinks(fs, p, content)
    \o ObsidianLinter_check_unlinked_references(fs, p, content)
    \o ObsidianLinter_check_task_lists(p, content)
    \o ObsidianLinter_check_formatting(p, content).issues

LintFileWrite(dry_run, p, content) ==
    IF dry_run THEN content ELSE ObsidianLinter_check_formatting(p, content).fixed_content

QUOTE == "\""
APOSTROPHE == "'"

\* the text of the token has a "-"
HasDash(tok) ==
    \/ tok \in {"-", "---", WE2}
    \/ Contains(tok, WE1) \/ Contains(tok, TKT_D) \/ Contains(tok, TKT_S)

\* _parse_simple_yaml: the lines that set a field (not blank, not a comment)
LinterFieldLines(lines) ==
    {k \in DOMAIN lines : Has(lines[k], ":") /\ Head(Strip(lines[k])) # DESCRIPTION}

FieldKey(line) == Strip(SubSeq(line, 1, FirstIdx(line, ":", 1) - 1))

\* the value of a field, one pair of quotes removed
Unquote(v) ==
    IF v # <<>> /\ Head(v) = v[Len(v)] /\ Head(v) \in {QUOTE, APOSTROPHE}
    THEN SubSeq(v, 2, Len(v) - 1)
    ELSE v

FieldValue(line) == Unquote(Strip(SubSeq(line, FirstIdx(line, ":", 1) + 1, Len(line))))

\* fields[key], set by the last line with the key
LinterField(lines, at) == IF at = {} THEN <<>> ELSE FieldValue(lines[Max(at)])

LinterFieldOf(lines, key) ==
    LinterField(lines, {k \in LinterFieldLines(lines) : FieldKey(lines[k]) = <<key>>})

LinterHasField(lines, key) ==
    \E k \in LinterFieldLines(lines) : FieldKey(lines[k]) = <<key>>

\* _check_frontmatter raises on the fields of a frontmatter: file_stem is
\* unbound when neither id nor status is set (UnboundLocalError), and
\* id_value.split('-')[1] fails in a ticket file whose id has no "-"
LinterRaisesOn(p, lines) ==
    \/ ~LinterHasField(lines, "id") /\ ~LinterHasField(lines, "status")
    \/ /\ LinterHasField(lines, "id")
       /\ p \in {TicketFileD, TicketFileS}
       /\ \A k \in DOMAIN LinterFieldOf(lines, "id") : ~HasDash(LinterFieldOf(lines, "id")[k])

LinterRaisesAt(p, content, fm) ==
    fm.ok /\ LinterRaisesOn(p, Split(SubSeq(content, fm.from, fm.to), "\n"))

\* lint_file raises: the content starts with "---\n" and _check_frontmatter
\* raises, before any other check and before the write
LinterRaises(p, content) ==
    /\ Len(content) >= 2 /\ content[1] = "---" /\ content[2] = "\n"
    /\ LinterRaisesAt(p, content, FrontmatterMatch(content))

\* the files lint_all gets through: those before the first that raises
LintedUpTo(order, raising) ==
    IF raising = {} THEN order ELSE SubSeq(order, 1, Min(raising) - 1)

LintedFiles(corpus, order) ==
    LintedUpTo(order, {k \in DOMAIN order : LinterRaises(order[k], corpus[order[k]])})

LintCrashes(corpus) == \E p \in DOMAIN corpus : LinterRaises(p, corpus[p])

\* lint_all and print_results: the issues of lint_file over the sorted
\* files; nothing is reported when lint_file raises
lint_all(corpus, order) ==
    IF LintCrashes(corpus) THEN <<>>
    ELSE Flatten([k \in DOMAIN order |->
                    LintFileIssues(DOMAIN corpus, order[k], corpus[order[k]])])

(***************************************************************************)
(* validate.py: ObsidianValidator.  The report holds the issues of         *)
(* _check_duplicate_ids and _check_broken_wikilinks.                       *)
(***************************************************************************)
\* rel_path_str.replace('/', '_')
Underscored(name) == [k \in DOMAIN name |-> IF name[k] = "/" THEN "_" ELSE name[k]]

\* _index_markdown_files: the keys of check.py and the path with "_" for "/"
ValidatorKeys(fs) ==
    markdown_files(fs) \union {Underscored(Pieces(f) \o <<".md">>) : f \in fs}

\* s.strip(q) for a quote character q
RECURSIVE StripToken(_, _)
StripToken(s, q) ==
    IF s # <<>> /\ Head(s) = q THEN StripToken(Tail(s), q)
    ELSE IF s # <<>> /\ s[Len(s)] = q THEN StripToken(SubSeq(s, 1, Len(s) - 1), q)
    ELSE s

\* key, value = line.split(':', 1), stripped; the value without its quotes
LineKey(line) == Strip(SubSeq(line, 1, FirstIdx(line, ":", 1) - 1))
LineValue(line) ==
    StripToken(StripToken(Strip(SubSeq(line, FirstIdx(line, ":", 1) + 1, Len(line))),
                          QUOTE), APOSTROPHE)

\* the first line "id: value" of the frontmatter lines
IdLines(lines) == {k \in DOMAIN lines : Has(lines[k], ":") /\ LineKey(lines[k]) = <<"id">>}

FirstIdOf(lines, ids) ==
    IF ids = {} THEN [has |-> FALSE, id |-> <<>>]
    ELSE [has |-> TRUE, id |-> LineValue(lines[Min(ids)])]

FrontmatterIdIn(lines) == FirstIdOf(lines, IdLines(lines))

FrontmatterIdAt(content, fm) ==
    IF ~fm.ok THEN [has |-> FALSE, id |-> <<>>]
    ELSE FrontmatterIdIn(Split(SubSeq(content, fm.from, fm.to), "\n"))

\* the id the loop of _check_duplicate_ids records for a file
FrontmatterId(content) == FrontmatterIdAt(content, FrontmatterMatch(content))

\* frontmatter_ids[id_value]: the files that declare the id, in sorted order
DeclaringFiles(corpus, order, id) ==
    SelectSeq(order, LAMBDA f : FrontmatterId(corpus[f]).has /\ FrontmatterId(corpus[f]).id = id)

\* the flag loop, over the ids in the order of their first file
DuplicateStep(corpus, order, k) ==
    IF /\ FrontmatterId(corpus[order[k]]).has
       /\ DeclaringFiles(corpus, order, FrontmatterId(corpus[order[k]]).id)[1] = order[k]
       /\ Len(DeclaringFiles(corpus, order, FrontmatterId(corpus[order[k]]).id)) > 1
    THEN <<[file |-> order[k], line |-> 1, severity |-> "error", category |-> "collision",
            kind |-> "duplicate_id", text |-> FrontmatterId(corpus[order[k]]).id,
            fix_available |-> FALSE,
            names |-> DeclaringFiles(corpus, order, FrontmatterId(corpus[order[k]]).id)]>>
    ELSE <<>>

ObsidianValidator_check_duplicate_ids(corpus, order) ==
    Flatten([k \in DOMAIN order |-> DuplicateStep(corpus, order, k)])

\* possible_paths of _check_broken_wikilinks; the Path objects appended to
\* the list are never equal to a key, which is a str
PossiblePaths(target) ==
    {target, target \o <<".md">>, target \o <<"_index">>, target \o <<"_index", ".md">>}

ValidatorWikilinkStep(keys, p, content, r) ==
    IF PossiblePaths(TextOf(LinkTarget(SubSeq(content, r[1] + 2, r[2] - 2)))) \cap keys # {}
    THEN <<>>
    ELSE <<Issue(p, LineOf(content, r[1]), "warning", "broken_link", "broken",
                 SubSeq(content, r[1] + 2, r[2] - 2), FALSE)>>

ValidatorWikilinkIssues(keys, p, content, ranges) ==
    Flatten([k \in DOMAIN ranges |-> ValidatorWikilinkStep(keys, p, content, ranges[k])])

ObsidianValidator_check_broken_wikilinks(corpus, order) ==
    Flatten([k \in DOMAIN order |->
        ValidatorWikilinkIssues(ValidatorKeys(DOMAIN corpus), order[k], corpus[order[k]],
                                WikilinkRanges(corpus[order[k]]))])

\* validate_all: the two checks in their order
validate_all(corpus, order) ==
    ObsidianValidator_check_duplicate_ids(corpus, order)
    \o ObsidianValidator_check_broken_wikilinks(corpus, order)

(***************************************************************************)
(* SpecLint: check.py, validate.py and lint.py run over a corpus.          *)
(***************************************************************************)
LintLines ==
    { <<WORD>>,
      <<WORD, " ">>,
      <<WORD, "\t">>,
      <<"[", "[", WE1, "]", "]">>,
      <<"[", "[", WE1_DIR, "/", WE1, "]", "]">>,
      <<"[", "[", "notes", "]", "]">>,
      <<"[", "[", "missing", "|", WORD, "]", "]">>,
      <<"-", " ", "[", "X", "]", " ", WORD>>,
      <<"-", " ", "[", "x", "]", WORD>>,
      <<WORD, " ", TKT_S>> }

LintBodies ==
    {Join(ls, <<"\n">>) \o end :
        ls \in UNION {[1..n -> LintLines] : n \in 1..MaxLines}, end \in {<<>>, <<"\n">>}}

\* Documents that differ in how, and whether, they declare WE1 as their id.
LintHeaders ==
    { Frontmatter(WE1) \o <<WORD, "\n">>,
      <<"---", "\n", "id", ":", " ", WE1, "\n", "---">>,
      <<"---", "\n", "id", ":", " ", QUOTE, WE1, QUOTE, "\n", "---", "\n", WORD, "\n">>,
      <<"---", "\n", "parent", ":", " ", WE1, "\n", "---", "\n", WORD, "\n">>,
      <<"id", ":", " ", WE1, "\n">>,
      Frontmatter(WE2) \o <<WE1, "\n">> }

NoLint ==
    [tool |-> "none", fix |-> FALSE, dry |-> FALSE, before |-> <<>>, issues |-> <<>>,
     crashed |-> FALSE]

\* Links written relative to the directory of the linking document: to the
\* file next to it with and without its suffix, to a file one directory
\* down, and to a file that does not exist.
RelativeLinks ==
    { [file |-> TicketFileD, link |-> <<"[", "[", TKT_S_STEM, ".md", "]", "]">>],
      [file |-> TicketFileD, link |-> <<"[", "[", TKT_S_STEM, "]", "]">>],
      [file |-> TicketFileD, link |-> <<"[", "[", "missing", ".md", "]", "]">>],
      [file |-> NoteFile, link |-> <<"[", "[", WE1, "_demo", "/", WE1_STEM, "]", "]">>],
      [file |-> NoteFile, link |-> <<"[", "[", "notes", ".md", "]", "]">>] }

RelativeCorpora ==
    {[p \in AllFiles |->
         IF p = l.file THEN DefaultContent(p) \o l.link \o <<"\n">> ELSE DefaultContent(p)] :
        l \in RelativeLinks}

\* the corpora the linter and the validator are run on
LintCorpora ==
    {[p \in AllFiles |-> IF p = NoteFile THEN body ELSE DefaultContent(p)] :
        body \in LintBodies}
    \cup
    {[p \in AllFiles |-> IF p = TicketFileS THEN DefaultContent(p) ELSE h[p]] :
        h \in [{IndexFile, TicketFileD, NoteFile} -> LintHeaders]}
    \cup RelativeCorpora

InitLint ==
    /\ files \in LintCorpora
    /\ lastRun = NoLint
    /\ prevRun = NoLint
    /\ nruns = 0
    /\ NamingIdle
    /\ PluginIdle
    /\ IdsIdle
    /\ PollIdle

\* One run of a tool: what it leaves on disk and what it reports.
LintRun(tool, fix, dry, after, issues, crashed) ==
    /\ nruns < MaxRuns
    /\ files' = after
    /\ lastRun' = [tool |-> tool, fix |-> fix, dry |-> dry, before |-> files,
                   issues |-> issues, crashed |-> crashed]
    /\ prevRun' = lastRun
    /\ nruns' = nruns + 1
    /\ UNCHANGED <<tree, violations, nfix, wes, created, idgen, poll>>

\* what lint_all leaves on disk: lint_file writes fixed_content unless dry_run
LintAllWrite(dry_run, corpus) ==
    [p \in DOMAIN corpus |->
        IF Has(LintedFiles(corpus, SortedFiles(DOMAIN corpus)), p)
        THEN LintFileWrite(dry_run, p, corpus[p])
        ELSE corpus[p]]

\* check.py main: --dry-run implies --fix; the linter is given dry_run only
CheckPy ==
    \E fix, dry \in BOOLEAN :
        LintRun("check", fix \/ dry, dry, LintAllWrite(dry, files),
                lint_all(files, SortedFiles(DOMAIN files)), LintCrashes(files))

\* validate.py main: validate_all, which opens the files for reading only
ValidatePy ==
    LintRun("validate", FALSE, FALSE, files, validate_all(files, SortedFiles(DOMAIN files)),
            FALSE)

\* step 3 of lint.py: fix-all.py, with --dry-run when it was given
LintPyFix(fix, dry, corpus) ==
    IF fix /\ ~dry
    THEN [p \in DOMAIN corpus |-> ObsidianFixer_fix_file(DOMAIN corpus, p, corpus[p])]
    ELSE corpus

\* steps 1 and 2 of lint.py, check.py run without --dry-run and leaving
\* checked on disk for validate.py
LintPySteps(fix, dry, checked) ==
    LintRun("lint", fix, dry, LintPyFix(fix, dry, checked),
            lint_all(files, SortedFiles(DOMAIN files))
            \o validate_all(checked, SortedFiles(DOMAIN checked)), LintCrashes(files))

\* lint.py main
LintPy == \E fix, dry \in BOOLEAN : LintPySteps(fix, dry, LintAllWrite(FALSE, files))

NextLint == CheckPy \/ ValidatePy \/ LintPy

SpecLint == InitLint /\ [][NextLint]_vars

(***************************************************************************)
(* Claims about the linter and the validator (SpecLint).                   *)
(***************************************************************************)
FixableIssues(issues) == {k \in DOMAIN issues : issues[k].fix_available}

\* C2: after a fix pass, the next run reports no fixable issue; for check.py,
\* the run after a completed run that applied fixes reports no issue with
\* fix_available set.
C2_NoFixableIssueAfterFix ==
    (/\ lastRun.tool = "check" /\ ~lastRun.crashed
     /\ prevRun.tool = "check" /\ prevRun.fix /\ ~prevRun.dry /\ ~prevRun.crashed)
    => FixableIssues(lastRun.issues) = {}

\* C5: a check-only run (no --fix, no --dry-run) of check.py, validate.py or
\* lint.py leaves the content of every file as it was.
C5_CheckOnlyIsReadOnly ==
    (lastRun.tool \in {"check", "validate", "lint"} /\ ~lastRun.fix /\ ~lastRun.dry)
    => files = lastRun.before

\* The frontmatter of a document: the lines between a first line "---" and
\* the next line "---"; the document declares the value of its id key.
DelimiterLines(lines) == {k \in 2..Len(lines) : RStrip(lines[k]) = <<"---">>}

DeclaresBefore(lines, id, closing) ==
    /\ RStrip(lines[1]) = <<"---">>
    /\ closing # {}
    /\ \E k \in 2..(Min(closing) - 1) :
          /\ Has(lines[k], ":")
          /\ Head(lines[k]) = "id"
          /\ FieldKey(lines[k]) = <<"id">>
          /\ FieldValue(lines[k]) = <<id>>

DeclaresIn(lines, id) == DeclaresBefore(lines, id, DelimiterLines(lines))

Declares(content, id) == DeclaresIn(Split(content, "\n"), id)

DuplicateErrors(issues, id) ==
    {k \in DOMAIN issues : issues[k].kind = "duplicate_id" /\ issues[k].text = <<id>>}

NamedBy(issue) == {issue.names[k] : k \in DOMAIN issue.names}

\* the report holds one error for id, naming the documents of declaring,
\* when they are two or more, and none otherwise
OneErrorFor(issues, id, declaring) ==
    /\ Cardinality(DuplicateErrors(issues, id)) = IF Cardinality(declaring) >= 2 THEN 1 ELSE 0
    /\ \A k \in DuplicateErrors(issues, id) : NamedBy(issues[k]) = declaring

\* C6: the validator reports exactly one duplicate-identifier error for each
\* identifier that two or more documents declare as their frontmatter id,
\* naming every declaring document, and no such error for any other
\* identifier, whatever the bodies and the other fields mention.
C6_OneErrorPerDuplicateId ==
    lastRun.tool = "validate"
    => \A id \in {WE1, WE2, TKT_D, TKT_S} :
          OneErrorFor(lastRun.issues, id,
              {p \in DOMAIN lastRun.before : Declares(lastRun.before[p], id)})

\* T, T.md, T_index or T_index.md is a key
Resolves(target, keys) ==
    \E suffix \in {<<>>, <<".md">>, <<"_index">>, <<"_index", ".md">>} :
        target \o suffix \in keys

\* the broken-link warnings of the report for the file p: line and link
BrokenLinksOf(issues, p) ==
    SelectSeq(issues, LAMBDA i : i.file = p /\ i.kind = "broken")

LineAndLink(issues) ==
    [k \in DOMAIN issues |-> [line |-> issues[k].line, link |-> issues[k].text]]

\* the links of content that do not resolve, in order, each with its line
UnresolvedAt(content, keys, r) ==
    IF Resolves(TextOf(LinkTarget(SubSeq(content, r[1] + 2, r[2] - 2))), keys) THEN <<>>
    ELSE <<[line |-> LineOf(content, r[1]), link |-> SubSeq(content, r[1] + 2, r[2] - 2)]>>

UnresolvedAmong(content, keys, ranges) ==
    Flatten([k \in DOMAIN ranges |-> UnresolvedAt(content, keys, ranges[k])])

Unresolved(content, keys) == UnresolvedAmong(content, keys, WikilinkRanges(content))

\* the keys of the index the tool of the run builds
IndexKeys(run) ==
    IF run.tool = "check" THEN markdown_files(DOMAIN run.before)
    ELSE ValidatorKeys(DOMAIN run.before)

\* C7: the linter and the validator report a wikilink [[T]] or [[T|alias]]
\* as broken exactly when none of T, T.md, T_index, T_index.md is a key of
\* the index: one warning per such occurrence, with its 1-based line.
C7_BrokenExactlyWhenNoFormIsAKey ==
    (lastRun.tool \in {"check", "validate"} /\ ~lastRun.crashed)
    => \A p \in DOMAIN lastRun.before :
          LineAndLink(BrokenLinksOf(lastRun.issues, p))
              = Unresolved(lastRun.before[p], IndexKeys(lastRun))

(***************************************************************************)
(* naming-linter: one work effort folder, WE-260101-abcd_demo, under the   *)
(* root.  tree holds its files: tree.index the *_index.md files of the     *)
(* folder, tree.tickets the *.md files of its tickets directory, each with *)
(* its content.  A file name is a record of its parts; a content is a      *)
(* record of its frontmatter lines and of the text after the closing ---.  *)
(***************************************************************************)
FOLDER_WE_ID == WE1
FOLDER_DATE == "260101"

\* f"{id}_index.md"
IndexName(id) == [kind |-> "index", mid |-> id, seq |-> "", desc |-> ""]
\* f"TKT-{mid}-{seq}_{desc}.md"
TicketName(mid, seq, desc) == [kind |-> "ticket", mid |-> mid, seq |-> seq, desc |-> desc]
\* a markdown file whose name has no -NNN_ part
OtherName(stem) == [kind |-> "other", mid |-> "", seq |-> "", desc |-> stem]
NoName == [kind |-> "none", mid |-> "", seq |-> "", desc |-> ""]

SixDigits == {"260101", "260102"}

\* f"TKT-{mid}-{seq}"
TicketIdText(mid, seq) == <<"TKT-", mid, "-", seq>>

TS_ISO == "2026-01-01T10:00:00Z"
TS_YAML == "2026-01-01 10:00:00+00:00"

Field(key, text) == [key |-> key, text |-> text]

\* yaml.safe_load of a scalar: a quoted scalar is the string in the quotes,
\* an ISO 8601 timestamp is a datetime, anything else here a string
YamlLoadScalar(text) ==
    IF Len(text) >= 2 /\ Head(text) = text[Len(text)] /\ Head(text) \in {QUOTE, APOSTROPHE}
    THEN [t |-> "str", v |-> SubSeq(text, 2, Len(text) - 1)]
    ELSE IF text = <<TS_ISO>> THEN [t |-> "timestamp", v |-> <<TS_ISO>>]
    ELSE [t |-> "str", v |-> text]

\* yaml.dump of a scalar: a string in plain style, a datetime as
\* isoformat(' ')
YamlDumpScalar(value) == IF value.t = "timestamp" THEN <<TS_YAML>> ELSE value.v

\* yaml.safe_load of a block mapping: a dict, in the order of the first
\* line of each key, with the value of its last line
YamlLastOf(fields, key) == Max({k \in DOMAIN fields : fields[k].key = key})

YamlFirsts(fields) ==
    SelectSeq([k \in DOMAIN fields |-> [at |-> k, key |-> fields[k].key]],
              LAMBDA e : \A j \in 1..(e.at - 1) : fields[j].key # e.key)

YamlLoadAmong(fields, firsts) ==
    [k \in DOMAIN firsts |->
        [key |-> firsts[k].key,
         value |-> YamlLoadScalar(fields[YamlLastOf(fields, firsts[k].key)].text)]]

YamlLoad(fields) == YamlLoadAmong(fields, YamlFirsts(fields))

HasKey(mapping, key) == \E k \in DOMAIN mapping : mapping[k].key = key

ValueOf(mapping, key) == mapping[CHOOSE k \in DOMAIN mapping : mapping[k].key = key].value

\* frontmatter['id'] = correct_id on a dict
SetId(mapping, correct_id) ==
    IF HasKey(mapping, "id")
    THEN [k \in DOMAIN mapping |->
            IF mapping[k].key = "id"
            THEN [key |-> "id", value |-> [t |-> "str", v |-> correct_id]]
            ELSE mapping[k]]
    ELSE Append(mapping, [key |-> "id", value |-> [t |-> "str", v |-> correct_id]])

\* yaml.dump(frontmatter, default_flow_style=False, sort_keys=False)
YamlDump(mapping) ==
    [k \in DOMAIN mapping |-> Field(mapping[k].key, YamlDumpScalar(mapping[k].value))]

\* A content: fm tells what re.match(r'^---\s*\n(.*?)\n---') and
\* yaml.safe_load find ("none": no match, "map": a mapping, "scalar": a
\* plain string, "empty": None); open is the whitespace after the first
\* ---, fields the lines of a mapping, rest the text after the match.
Doc(fm, open, fields, rest) == [fm |-> fm, open |-> open, fields |-> fields, rest |-> rest]

(***************************************************************************)
(* rules/work_efforts.py: WorkEffortValidator.validate                     *)
(***************************************************************************)
Violation(type, path, expected, actual_id, expected_id) ==
    [type |-> type, path |-> path, expected |-> expected,
     actual_id |-> actual_id, expected_id |-> expected_id]

REQUIRED_FIELDS == <<"id", "title", "status", "created">>

\* the loop over required_fields, on a dict
MissingFields(path, mapping) ==
    Flatten([k \in DOMAIN REQUIRED_FIELDS |->
        IF HasKey(mapping, REQUIRED_FIELDS[k]) THEN <<>>
        ELSE <<Violation("MISSING_FRONTMATTER_FIELD", path, NoName, <<>>,
                         <<REQUIRED_FIELDS[k]>>)>>])

\* if 'id' in frontmatter and frontmatter['id'] != we_id
IdMismatch(path, mapping, we_id) ==
    IF HasKey(mapping, "id") /\ ValueOf(mapping, "id") # [t |-> "str", v |-> <<we_id>>]
    THEN <<Violation("ID_MISMATCH", path, NoName, YamlDumpScalar(ValueOf(mapping, "id")),
                     <<we_id>>)>>
    ELSE <<>>

ValidateMapping(path, mapping, we_id) ==
    MissingFields(path, mapping) \o IdMismatch(path, mapping, we_id)

\* _validate_index_file: no frontmatter; None, on which `field not in`
\* raises TypeError, caught as FILE_READ_ERROR; a string, of which no
\* required field is a substring; a dict
validate_index_file(path, doc, we_id) ==
    CASE doc.fm = "none" -> <<Violation("MISSING_FRONTMATTER", path, NoName, <<>>, <<>>)>>
      [] doc.fm = "empty" -> <<Violation("FILE_READ_ERROR", path, NoName, <<>>, <<>>)>>
      [] doc.fm = "scalar" ->
            [k \in DOMAIN REQUIRED_FIELDS |->
                Violation("MISSING_FRONTMATTER_FIELD", path, NoName, <<>>,
                          <<REQUIRED_FIELDS[k]>>)]
      [] OTHER -> ValidateMapping(path, YamlLoad(doc.fields), we_id)

\* TICKET_PATTERN = ^TKT-\d{6}-\d{3}_[a-z0-9_]+\.md$
validate_ticket_name(name) == name.kind = "ticket" /\ name.mid \in SixDigits

\* One iteration of the loop of _validate_tickets_dir; the file is not read.
ValidateTicket(name, date_part) ==
    IF ~validate_ticket_name(name)
    THEN <<Violation("INVALID_TICKET_NAME", name, NoName, <<>>, <<>>)>>
    ELSE IF name.mid # date_part
    THEN <<Violation("TICKET_DATE_MISMATCH", name, NoName, TicketIdText(name.mid, name.seq),
                     <<"TKT-", date_part, "-", "XXX">>)>>
    ELSE <<>>

\* _validate_tickets_dir, with the files in the order glob yields them
validate_tickets_dir(order, date_part) ==
    Flatten([k \in DOMAIN order |-> ValidateTicket(order[k], date_part)])

\* step 3 and 4 of _validate_work_effort; first is index_files[0]
ValidateIndex(index, first, we_id) ==
    IF IndexName(we_id) \in DOMAIN index
    THEN validate_index_file(IndexName(we_id), index[IndexName(we_id)], we_id)
    ELSE IF DOMAIN index # {}
    THEN <<Violation("INCORRECT_INDEX_NAME", first, IndexName(we_id), <<>>, <<>>)>>
    ELSE <<Violation("MISSING_INDEX_FILE", NoName, IndexName(we_id), <<>>, <<>>)>>

\* _validate_work_effort for the folder, whose name is valid
validate_work_effort(t, first, order) ==
    ValidateIndex(t.index, first, FOLDER_WE_ID)
    \o (IF t.hasTickets THEN validate_tickets_dir(order, FOLDER_DATE) ELSE <<>>)

(***************************************************************************)
(* rules/work_efforts.py: WorkEffortValidator.apply_fixes                  *)
(***************************************************************************)
\* Path.rename in a directory: FileNotFoundError when old is gone; when new
\* exists, POSIX replaces it silently and Windows raises FileExistsError
RenameRaises(dir, old, new, posix) ==
    old \notin DOMAIN dir \/ (new \in DOMAIN dir /\ ~posix)

Rename(dir, old, new) ==
    [n \in (DOMAIN dir \ {old}) \union {new} |-> IF n = new THEN dir[old] ELSE dir[n]]

\* _fix_frontmatter_id raises: item assignment on a str or on None
FixIdRaises(doc) == doc.fm \in {"scalar", "empty"}

\* _fix_frontmatter_id: the content it leaves
fix_frontmatter_id(doc, correct_id) ==
    IF doc.fm = "map"
    THEN Doc("map", <<>>, YamlDump(SetId(YamlLoad(doc.fields), correct_id)), doc.rest)
    ELSE doc

\* the ID_MISMATCH branch of apply_fixes
FixIdMismatch(t, v) ==
    IF v.path \notin DOMAIN t.index \/ FixIdRaises(t.index[v.path])
    THEN [tree |-> t, fixed |-> 0]
    ELSE [tree |-> [t EXCEPT !.index[v.path] = fix_frontmatter_id(@, v.expected_id)],
          fixed |-> 1]

\* the INCORRECT_INDEX_NAME branch of apply_fixes
FixIndexName(t, v, posix) ==
    IF RenameRaises(t.index, v.path, v.expected, posix)
    THEN [tree |-> t, fixed |-> 0]
    ELSE [tree |-> [t EXCEPT !.index = Rename(@, v.path, v.expected)], fixed |-> 1]

\* _fix_ticket_name after the rename to new: the frontmatter id of new
FixRenamedTicket(tickets, new) ==
    [tickets EXCEPT ![new] = fix_frontmatter_id(@, TicketIdText(new.mid, new.seq))]

\* _fix_ticket_name, called with a ticket that fails validate_ticket_name:
\* False without a -NNN_ part; the rename, then the frontmatter id
FixTicketName(t, old, new, posix) ==
    IF old.kind # "ticket" \/ RenameRaises(t.tickets, old, new, posix)
    THEN [tree |-> t, fixed |-> 0]
    ELSE IF FixIdRaises(t.tickets[old])
    THEN [tree |-> [t EXCEPT !.tickets = Rename(@, old, new)], fixed |-> 0]
    ELSE [tree |-> [t EXCEPT !.tickets = FixRenamedTicket(Rename(@, old, new), new)],
          fixed |-> 1]

\* correct_filename of _fix_ticket_name
CorrectTicketName(name) == TicketName(FOLDER_DATE, name.seq, name.desc)

\* One iteration of the loop of apply_fixes.
FixStep(t, v, posix) ==
    CASE v.type = "INCORRECT_INDEX_NAME" -> FixIndexName(t, v, posix)
      [] v.type = "ID_MISMATCH" -> FixIdMismatch(t, v)
      [] v.type = "INVALID_TICKET_NAME" ->
            FixTicketName(t, v.path, CorrectTicketName(v.path), posix)
      [] OTHER -> [tree |-> t, fixed |-> 0]

RECURSIVE apply_fixes(_, _, _)
\* the rest of the loop, after a step that left r
FixNext(r, vs, posix) == [apply_fixes(r.tree, vs, posix) EXCEPT !.fixed = @ + r.fixed]

apply_fixes(t, vs, posix) ==
    IF vs = <<>> THEN [tree |-> t, fixed |-> 0]
    ELSE FixNext(FixStep(t, Head(vs), posix), Tail(vs), posix)

(***************************************************************************)
(* SpecNaming: naming-linter/lint.py run over the work effort folder.      *)
(***************************************************************************)
BODY_TEXT == <<"\n", WORD, "\n">>

IndexFields(id, title, created_at) ==
    <<Field("id", id), Field("title", title), Field("status", <<"active">>),
      Field("created", created_at)>>

IndexDocs ==
    { Doc("map", <<>>, IndexFields(<<WE1>>, <<WORD>>, <<TS_ISO>>), BODY_TEXT),
      Doc("map", <<>>, IndexFields(<<WE2>>, <<WORD>>, <<"2026-01-01">>), BODY_TEXT),
      Doc("map", <<" ">>, IndexFields(<<WE2>>, <<QUOTE, WORD, QUOTE>>, <<TS_ISO>>), BODY_TEXT),
      Doc("map", <<>>, <<Field("id", <<QUOTE, WE2, QUOTE>>), Field("title", <<WORD>>),
                         Field("title", <<"notes">>)>>, BODY_TEXT),
      Doc("map", <<>>, <<Field("title", <<WORD>>)>>, BODY_TEXT),
      Doc("scalar", <<>>, <<>>, BODY_TEXT),
      Doc("empty", <<>>, <<>>, BODY_TEXT),
      Doc("none", <<>>, <<>>, BODY_TEXT) }

TicketDocs(name) ==
    { Doc("map", <<>>, <<Field("id", TicketIdText(name.mid, name.seq)),
                         Field("title", <<WORD>>)>>, BODY_TEXT),
      Doc("map", <<>>, <<Field("id", TicketIdText("260102", "009")),
                         Field("created", <<TS_ISO>>)>>, BODY_TEXT),
      Doc("map", <<>>, <<Field("title", <<WORD>>)>>, BODY_TEXT),
      Doc("scalar", <<>>, <<>>, BODY_TEXT) }

TicketNames ==
    { TicketName("260101", "001", "fix"), TicketName("260102", "001", "fix"),
      TicketName("abcd", "001", "fix"), TicketName("wxyz", "001", "fix"),
      OtherName("notes") }

MaxTickets == 2

TicketDirs ==
    UNION {[S -> UNION {TicketDocs(n) : n \in S}] :
              S \in {T \in SUBSET TicketNames : Cardinality(T) <= MaxTickets}}

\* the contents a ticket file of that name may have
WellFormedDir(dir) == \A n \in DOMAIN dir : dir[n] \in TicketDocs(n)

DefaultIndex == IndexName(WE1) :> Doc("map", <<>>, IndexFields(<<WE1>>, <<WORD>>, <<TS_ISO>>),
                                      BODY_TEXT)

IndexDirs ==
    {<<>>}
    \union {IndexName(id) :> d : id \in {WE1, WE2}, d \in IndexDocs}
    \union {[n \in {IndexName(WE2), IndexName("old")} |-> d] : d \in IndexDocs}

Tree(index, hasTickets, tickets) ==
    [index |-> index, hasTickets |-> hasTickets, tickets |-> tickets]

NoNaming ==
    [tool |-> "none", fix |-> FALSE, dry |-> FALSE, posix |-> TRUE, exit |-> 0,
     before |-> Tree(<<>>, FALSE, <<>>)]

\* the work effort folders the naming linter is run on
NamingTrees ==
    {Tree(index, FALSE, <<>>) : index \in IndexDirs}
    \cup
    {Tree(DefaultIndex, TRUE, tickets) : tickets \in {d \in TicketDirs : WellFormedDir(d)}}

InitNaming ==
    /\ tree \in NamingTrees
    /\ violations = <<>>
    /\ nfix = 0
    /\ lastRun = NoNaming
    /\ prevRun = NoNaming
    /\ nruns = 0
    /\ files = <<>>
    /\ PluginIdle
    /\ IdsIdle
    /\ PollIdle

\* the orders in which glob may yield the files of a directory
GlobOrders(S) == {o \in [1..Cardinality(S) -> S] : \A n \in S : \E k \in DOMAIN o : o[k] = n}

\* main after validate(): the fixes when --fix is given without --dry-run
\* and there are violations, r being what apply_fixes returns
NamingDone(fix, dry, posix, vs, r) ==
    /\ nruns < MaxRuns
    /\ violations' = vs
    /\ tree' = r.tree
    /\ nfix' = r.fixed
    /\ lastRun' = [tool |-> "naming-lint", fix |-> fix, dry |-> dry, posix |-> posix,
                   exit |-> IF vs = <<>> THEN 0 ELSE 1, before |-> tree]
    /\ prevRun' = lastRun
    /\ nruns' = nruns + 1
    /\ UNCHANGED <<files, wes, created, idgen, poll>>

NamingRun(fix, dry, posix, vs) ==
    NamingDone(fix, dry, posix, vs,
        IF fix /\ ~dry THEN apply_fixes(tree, vs, posix) ELSE [tree |-> tree, fixed |-> 0])

\* naming-linter/lint.py main, on a platform, with glob yielding first as
\* the first *_index.md file and the tickets in order
NamingLint ==
    \E fix, dry, posix \in BOOLEAN :
    \E first \in IF DOMAIN tree.index = {} THEN {NoName} ELSE DOMAIN tree.index :
    \E order \in GlobOrders(DOMAIN tree.tickets) :
        NamingRun(fix, dry, posix, validate_work_effort(tree, first, order))

NextNaming == NamingLint

SpecNaming == InitNaming /\ [][NextNaming]_vars

(***************************************************************************)
(* Claims about the naming linter (SpecNaming).                            *)
(***************************************************************************)
FileCount(t) == Cardinality(DOMAIN t.index) + Cardinality(DOMAIN t.tickets)

FixRun(run) == run.tool = "naming-lint" /\ run.fix /\ ~run.dry

\* the ticket renames of the run whose corrected name was already there
RenamesOntoExisting(vs, before) ==
    {k \in DOMAIN vs : /\ vs[k].type = "INVALID_TICKET_NAME"
                       /\ vs[k].path.kind = "ticket"
                       /\ CorrectTicketName(vs[k].path) \in DOMAIN before.tickets}

\* C4: in fix mode a rename whose target name already exists is not
\* performed: the target keeps its content, the source file is kept, and
\* apply_fixes never reduces the number of files.
C4_RenameOntoExistingIsAborted ==
    FixRun(lastRun)
    => /\ FileCount(tree) >= FileCount(lastRun.before)
       /\ \A k \in RenamesOntoExisting(violations, lastRun.before) :
             /\ violations[k].path \in DOMAIN tree.tickets
             /\ CorrectTicketName(violations[k].path) \in DOMAIN tree.tickets
             /\ tree.tickets[CorrectTicketName(violations[k].path)]
                   = lastRun.before.tickets[CorrectTicketName(violations[k].path)]

\* the document has a frontmatter id, and it is not id
DeclaresOtherId(doc, id) ==
    /\ doc.fm = "map"
    /\ HasKey(YamlLoad(doc.fields), "id")
    /\ ValueOf(YamlLoad(doc.fields), "id") # [t |-> "str", v |-> id]

DeclaresId(doc, id) ==
    /\ doc.fm = "map"
    /\ HasKey(YamlLoad(doc.fields), "id")
    /\ ValueOf(YamlLoad(doc.fields), "id") = [t |-> "str", v |-> id]

IdMismatchesOf(vs, path) == {k \in DOMAIN vs : vs[k].type = "ID_MISMATCH" /\ vs[k].path = path}

\* C9: for a ticket file with a valid name whose frontmatter id is not the
\* identifier of the name, the validator reports exactly one id-mismatch
\* violation, and fix mode rewrites the frontmatter id to that identifier.
C9_TicketIdMismatchReportedAndFixed ==
    lastRun.tool = "naming-lint"
    => \A n \in DOMAIN lastRun.before.tickets :
          (/\ validate_ticket_name(n)
           /\ DeclaresOtherId(lastRun.before.tickets[n], TicketIdText(n.mid, n.seq)))
          => /\ Cardinality(IdMismatchesOf(violations, n)) = 1
             /\ FixRun(lastRun)
                => /\ n \in DOMAIN tree.tickets
                   /\ DeclaresId(tree.tickets[n], TicketIdText(n.mid, n.seq))

\* the keys of a frontmatter in their order, and the value a key has for a
\* reader of the file (quotes removed)
KeysOf(doc) == [k \in DOMAIN YamlFirsts(doc.fields) |-> YamlFirsts(doc.fields)[k].key]

ReadValue(doc, key) == Unquote(doc.fields[YamlLastOf(doc.fields, key)].text)

OnlyIdChanged(b, a) ==
    /\ KeysOf(a) = KeysOf(b)
    /\ \A k \in DOMAIN KeysOf(b) :
          KeysOf(b)[k] # "id" => ReadValue(a, KeysOf(b)[k]) = ReadValue(b, KeysOf(b)[k])
    /\ a.rest = b.rest

\* the index files whose id the run repaired
RepairedIndexes(vs, before) ==
    {vs[k].path : k \in {j \in DOMAIN vs : vs[j].type = "ID_MISMATCH"
                                           /\ before.index[vs[j].path].fm = "map"}}

\* the tickets the run renamed to a free name: _fix_ticket_name repairs the
\* id of each of them
RepairedTickets(vs, before) ==
    {vs[k].path : k \in {j \in DOMAIN vs :
        /\ vs[j].type = "INVALID_TICKET_NAME"
        /\ vs[j].path.kind = "ticket"
        /\ before.tickets[vs[j].path].fm = "map"
        /\ CorrectTicketName(vs[j].path) \notin DOMAIN before.tickets
        /\ \A i \in DOMAIN vs :
              vs[i].type = "INVALID_TICKET_NAME" /\ vs[i].path.kind = "ticket"
              /\ CorrectTicketName(vs[i].path) = CorrectTicketName(vs[j].path)
              => i = j}}

\* C10: the id repair changes only the value of the frontmatter id key:
\* the keys are the same, in the same order, the other keys have the same
\* values, and the text after the closing --- is unchanged.
C10_RepairChangesOnlyTheId ==
    FixRun(lastRun)
    => /\ \A p \in RepairedIndexes(violations, lastRun.before) :
             OnlyIdChanged(lastRun.before.index[p], tree.index[p])
       /\ \A n \in RepairedTickets(violations, lastRun.before) :
             OnlyIdChanged(lastRun.before.tickets[n], tree.tickets[CorrectTicketName(n)])

(***************************************************************************)
(* plugins/helpers.py and plugins/todoist/plugin.py.  Letter case matters  *)
(* to these functions, so a string is the sequence of its characters here. *)
(***************************************************************************)
UPPER == <<"A", "B", "C", "D", "E", "F", "G", "H", "I", "J", "K", "L", "M",
           "N", "O", "P", "Q", "R", "S", "T", "U", "V", "W", "X", "Y", "Z">>
LOWER == <<"a", "b", "c", "d", "e", "f", "g", "h", "i", "j", "k", "l", "m",
           "n", "o", "p", "q", "r", "s", "t", "u", "v", "w", "x", "y", "z">>
DIGITS == <<"0", "1", "2", "3", "4", "5", "6", "7", "8", "9">>

Chars(seq) == {seq[i] : i \in DOMAIN seq}

\* c.lower() and s.lower()
LowerChar(c) ==
    IF c \in Chars(UPPER) THEN LOWER[CHOOSE i \in DOMAIN UPPER : UPPER[i] = c] ELSE c
str_lower(s) == [i \in DOMAIN s |-> LowerChar(s[i])]

\* \d and [a-z0-9]
IsDigit(c) == c \in Chars(DIGITS)
IsLowerAlnum(c) == c \in Chars(LOWER) \cup Chars(DIGITS)

\* s.startswith(prefix)
str_startswith(s, prefix) == Len(prefix) <= Len(s) /\ SubSeq(s, 1, Len(prefix)) = prefix

\* s.rstrip(c)
RECURSIVE str_rstrip(_, _)
str_rstrip(s, c) ==
    IF s # <<>> /\ s[Len(s)] = c THEN str_rstrip(SubSeq(s, 1, Len(s) - 1), c) ELSE s

\* max_length of sanitize_title
MAX_LENGTH == 50

\* every character outside a-z0-9 as "_"
Underscores(s) == [i \in DOMAIN s |-> IF IsLowerAlnum(s[i]) THEN s[i] ELSE "_"]

\* re.sub(r'_+', '_', u): of a run of "_" only the first one stays
CollapseUnderscores(u) ==
    Without(u, {i \in DOMAIN u : i > 1 /\ u[i] = "_" /\ u[i - 1] = "_"})

\* title[:max_length].rstrip('_') when the title is too long
Truncate(t) ==
    IF Len(t) > MAX_LENGTH THEN str_rstrip(SubSeq(t, 1, MAX_LENGTH), "_") ELSE t

\* lower(); re.sub(r'[^a-z0-9]+', '_'); strip('_'); re.sub(r'_+', '_'); truncation
sanitize_title(title) ==
    Truncate(CollapseUnderscores(StripToken(
        CollapseUnderscores(Underscores(str_lower(title))), "_")))

\* WE_FOLDER_PATTERN = ^WE-\d{6}-[a-z0-9]{4}_[a-z0-9_]+$ matches the name
WE_FOLDER_PATTERN(s) ==
    /\ Len(s) >= 16
    /\ SubSeq(s, 1, 3) = <<"W", "E", "-">>
    /\ \A k \in 4..9 : IsDigit(s[k])
    /\ s[10] = "-"
    /\ \A k \in 11..14 : IsLowerAlnum(s[k])
    /\ s[15] = "_"
    /\ \A k \in 16..Len(s) : IsLowerAlnum(s[k]) \/ s[k] = "_"

\* TRUE when the name is rejected with an error message
validate_we_folder_name(folder_name) == ~WE_FOLDER_PATTERN(folder_name)

\* the linter is used when its module can be imported; no validation otherwise
validate_folder_name(folder_name, importable) ==
    importable /\ validate_we_folder_name(folder_name)

\* we_id_pattern = WE-\d{6}-[a-z0-9]{4} with re.IGNORECASE matches s at i
WeIdLength == 14
we_id_pattern(s, i) ==
    /\ i + WeIdLength - 1 <= Len(s)
    /\ LowerChar(s[i]) = "w"
    /\ LowerChar(s[i + 1]) = "e"
    /\ s[i + 2] = "-"
    /\ \A k \in 3..8 : IsDigit(s[i + k])
    /\ s[i + 9] = "-"
    /\ \A k \in 10..13 : IsLowerAlnum(LowerChar(s[i + k]))

\* group(0) of the leftmost match among the starts, <<>> for no match
FirstWeId(s, starts) ==
    IF starts = {} THEN <<>> ELSE SubSeq(s, Min(starts), Min(starts) + WeIdLength - 1)

\* re.search(we_id_pattern, search_text, re.IGNORECASE)
search_we_id(search_text) ==
    FirstWeId(search_text, {i \in DOMAIN search_text : we_id_pattern(search_text, i)})

\* f"{sequence:03d}"
RECURSIVE Decimal(_)
Decimal(n) == IF n < 10 THEN <<DIGITS[n + 1]>> ELSE Decimal(n \div 10) \o <<DIGITS[(n % 10) + 1]>>

\* zeros in front up to the width
RECURSIVE ZeroPad(_, _)
ZeroPad(s, width) == IF Len(s) >= width THEN s ELSE ZeroPad(<<"0">> \o s, width)

\* the sign counts in the width
Format03d(n) ==
    IF n < 0 THEN <<"-">> \o ZeroPad(Decimal(0 - n), 2) ELSE ZeroPad(Decimal(n), 3)

\* f"TKT-{we_id.split('-')[-1]}-{sequence:03d}"
generate_ticket_id(we_id, sequence) ==
    <<"T", "K", "T", "-">> \o Split(we_id, "-")[Len(Split(we_id, "-"))]
        \o <<"-">> \o Format03d(sequence)

\* the title of a checklist line, ^\s*-\s*\[[ xX]\]\s*(.+)$ on the stripped line;
\* <<>> when the line is no checklist item
AfterBox(a) ==
    IF Len(a) >= 3 /\ a[1] = "[" /\ a[2] \in {" ", "x", "X"} /\ a[3] = "]"
    THEN Strip(SubSeq(a, 4, Len(a))) ELSE <<>>
ChecklistTitle(stripped) ==
    IF stripped # <<>> /\ stripped[1] = "-" THEN AfterBox(LStrip(Tail(stripped))) ELSE <<>>

IsTitle(t) == t # <<>>

\* TodoistPlugin.parse_subtasks on task.description (<<>> for None or '')
SubtaskTitles(lines) == SelectSeq([k \in DOMAIN lines |-> ChecklistTitle(Strip(lines[k]))], IsTitle)
parse_subtasks(description) ==
    IF description = <<>> THEN <<>> ELSE SubtaskTitles(Split(description, "\n"))

(***************************************************************************)
(* The work efforts directory: folder name -> [files, tickets], the files  *)
(* of the folder and of its tickets directory, each file name -> content.  *)
(* A content written by the plugin is the id and the title it was          *)
(* formatted from.                                                         *)
(***************************************************************************)
Put(f, k, v) == [x \in DOMAIN f \cup {k} |-> IF x = k THEN v ELSE f[x]]

INDEX_SUFFIX == <<"_", "i", "n", "d", "e", "x", ".", "m", "d">>
MD_SUFFIX == <<".", "m", "d">>
TKT_PREFIX == <<"T", "K", "T", "-">>

\* format_index_file and the frontmatter of create_ticket_file
Formatted(id, title) == [id |-> id, title |-> title]

\* f"{we_id}_{sanitized_title}"
FolderName(we_id, title) == we_id \o <<"_">> \o sanitize_title(title)

\* folder_path.mkdir(parents=True, exist_ok=True) and tickets_dir.mkdir(exist_ok=True)
Mkdir(fs, folder_name) ==
    IF folder_name \in DOMAIN fs THEN fs
    ELSE Put(fs, folder_name, [files |-> <<>>, tickets |-> <<>>])

\* create_work_effort_structure, once the folder name passed validation
create_work_effort_structure(fs, we_id, title) == Mkdir(fs, FolderName(we_id, title))

\* index_path.write_text(content)
WriteIndex(fs, folder_name, we_id, title) ==
    [fs EXCEPT ![folder_name].files = Put(@, we_id \o INDEX_SUFFIX, Formatted(we_id, title))]

\* base_path.iterdir() yields the entries in no particular order: every folder
\* whose name starts with the id can be the one returned; <<>> is None
find_work_effort_by_id(fs, we_id) ==
    IF \E n \in DOMAIN fs : str_startswith(n, we_id)
    THEN {n \in DOMAIN fs : str_startswith(n, we_id)}
    ELSE {<<>>}

\* tickets_dir.glob('TKT-*.md')
GlobTickets(tickets) ==
    {n \in DOMAIN tickets :
        /\ Len(n) >= Len(TKT_PREFIX) + Len(MD_SUFFIX)
        /\ str_startswith(n, TKT_PREFIX)
        /\ SubSeq(n, Len(n) - Len(MD_SUFFIX) + 1, Len(n)) = MD_SUFFIX}

\* create_ticket_file: the name of the file, and the directory with it written
TicketFileName(ticket_id, title) == ticket_id \o <<"_">> \o sanitize_title(title) \o MD_SUFFIX
create_ticket_file(tickets, ticket_id, title) ==
    Put(tickets, TicketFileName(ticket_id, title), Formatted(ticket_id, title))

\* TodoistPlugin.create_ticket: sequence = len(existing_tickets) + 1
NextTicketId(tickets, we_id) ==
    generate_ticket_id(we_id, Cardinality(GlobTickets(tickets)) + 1)
create_ticket(fs, we_path, we_id, title) ==
    [fs EXCEPT ![we_path].tickets =
        create_ticket_file(@, NextTicketId(fs[we_path].tickets, we_id), title)]

\* one round of the loop over the subtasks: r is [fs, paths]
TicketStep(r, we_path, we_id, title) ==
    [fs |-> create_ticket(r.fs, we_path, we_id, title),
     paths |-> Append(r.paths,
                  TicketFileName(NextTicketId(r.fs[we_path].tickets, we_id), title))]

RECURSIVE CreateTickets(_, _, _, _)
CreateTickets(r, we_path, we_id, titles) ==
    IF titles = <<>> THEN r
    ELSE CreateTickets(TicketStep(r, we_path, we_id, Head(titles)), we_path, we_id,
                       Tail(titles))

\* the WorkEffort object returned, with the directory as the call left it
WorkEffort(r, task, we_id, folder_path, linked) ==
    [fs |-> r.fs, raised |-> FALSE, we_id |-> we_id, folder_path |-> folder_path,
     index_path |-> we_id \o INDEX_SUFFIX, source_task |-> task,
     created_tickets |-> r.paths, linked_to_existing |-> linked]

\* the call raised: nothing was returned
Raised(fs, task) ==
    [fs |-> fs, raised |-> TRUE, we_id |-> <<>>, folder_path |-> <<>>,
     index_path |-> <<>>, source_task |-> task, created_tickets |-> <<>>,
     linked_to_existing |-> FALSE]

\* the subtasks of the task become tickets of the folder
WithTickets(fs, task, we_id, folder_path, linked) ==
    WorkEffort(CreateTickets([fs |-> fs, paths |-> <<>>], folder_path, we_id,
                             parse_subtasks(task.description)),
               task, we_id, folder_path, linked)

\* a new work effort: ValueError when the folder name is rejected
CreateNew(fs, task, we_id, importable) ==
    IF validate_folder_name(FolderName(we_id, task.title), importable)
    THEN Raised(fs, task)
    ELSE WithTickets(WriteIndex(create_work_effort_structure(fs, we_id, task.title),
                                FolderName(we_id, task.title), we_id, task.title),
                     task, we_id, FolderName(we_id, task.title), FALSE)

\* create_work_effort with the test of we_path left out: a new work effort
\* under the id found, or under a generated one
create_work_effort_without_linking(fs, task, we_match, entry, generated_id, importable) ==
    CreateNew(fs, task, IF we_match # <<>> THEN we_match ELSE generated_id, importable)

\* f"{task.title}\n{task.description or ''}"
SearchText(task) == task.title \o <<"\n">> \o task.description

\* TodoistPlugin.create_work_effort: we_match is group(0) of the search (<<>>
\* without a match), entry what find_work_effort returned, generated_id what
\* generate_we_id would return
create_work_effort(fs, task, we_match, entry, generated_id, importable) ==
    IF we_match # <<>>
    THEN IF entry # <<>>
         THEN WithTickets(fs, task, we_match, entry, TRUE)
         ELSE CreateNew(fs, task, we_match, importable)
    ELSE CreateNew(fs, task, generated_id, importable)

(***************************************************************************)
(* The plugin at work: tasks arrive and create_work_effort is called on    *)
(* each.  The directory is on a case-sensitive filesystem.                 *)
(***************************************************************************)
MaxTasks == 2

DATE_1 == <<"2", "6", "0", "1", "0", "1">>
DATE_2 == <<"2", "6", "0", "1", "0", "2">>
ABCD == <<"a", "b", "c", "d">>
WXYZ == <<"w", "x", "y", "z">>

WeId(prefix, date, suffix) == prefix \o <<"-">> \o date \o <<"-">> \o suffix

\* the id of the work effort on disk, and two other ways to write it
ID_CANONICAL == WeId(<<"W", "E">>, DATE_1, ABCD)
ID_LOWER == WeId(<<"w", "e">>, DATE_1, ABCD)
ID_MIXED == WeId(<<"W", "e">>, DATE_1, <<"A", "B", "C", "D">>)
\* the id of a work effort that is not on disk
ID_OTHER == WeId(<<"W", "E">>, DATE_2, <<"a", "1", "b", "2">>)

\* generate_we_id: WE-, the date of the day, four random characters of a-z0-9
GeneratedIds == {WeId(<<"W", "E">>, d, r) : d \in {DATE_1, DATE_2}, r \in {ABCD, WXYZ}}

BUILD == <<"B", "u", "i", "l", "d">>
DEMO == <<"d", "e", "m", "o">>
FIX == <<"f", "i", "x", " ">>
SUBTASK == <<"-", " ", "[", " ", "]", " ", "U", "I">>

\* BANGS is a title without a letter or a digit
BANGS == <<"!", "!">>
Titles ==
    {BUILD, BANGS, FIX \o ID_CANONICAL, FIX \o ID_LOWER, FIX \o ID_MIXED, FIX \o ID_OTHER}
Descriptions ==
    {<<>>, SUBTASK, FIX \o ID_LOWER \o <<"\n">> \o SUBTASK, FIX \o ID_CANONICAL}
Tasks == [title : Titles, description : Descriptions]

\* the work effort a directory may hold before the plugin runs
ExistingFolder == FolderName(ID_CANONICAL, DEMO)
ExistingTickets ==
    {<<>>, create_ticket_file(<<>>, generate_ticket_id(ID_CANONICAL, 1), <<"U", "I">>)}
ExistingDirs ==
    {<<>>} \cup
    {Put(<<>>, ExistingFolder,
         [files |-> Put(<<>>, ID_CANONICAL \o INDEX_SUFFIX, Formatted(ID_CANONICAL, DEMO)),
          tickets |-> t]) : t \in ExistingTickets}

NotCalled == [called |-> FALSE]

InitPlugin ==
    /\ wes \in ExistingDirs
    /\ created = NotCalled
    /\ nruns = 0
    /\ LinksIdle
    /\ NamingIdle
    /\ IdsIdle
    /\ PollIdle

\* what the caller holds after the call; before is the directory it started from
Returned(r, before) ==
    [called |-> TRUE, raised |-> r.raised, we_id |-> r.we_id,
     folder_path |-> r.folder_path, index_path |-> r.index_path,
     source_task |-> r.source_task, created_tickets |-> r.created_tickets,
     linked_to_existing |-> r.linked_to_existing, before |-> before]

PluginDone(r) ==
    /\ wes' = r.fs
    /\ created' = Returned(r, wes)
    /\ nruns' = nruns + 1
    /\ UNCHANGED <<files, lastRun, prevRun, tree, violations, nfix, idgen, poll>>

\* the search for an id in the task, then find_work_effort on a match and
\* generate_we_id without one
CreateFor(task, we_match, importable) ==
    \E entry \in (IF we_match = <<>> THEN {<<>>} ELSE find_work_effort_by_id(wes, we_match)),
       generated_id \in (IF we_match = <<>> THEN GeneratedIds ELSE {<<>>}) :
        PluginDone(create_work_effort(wes, task, we_match, entry, generated_id, importable))

CreateWorkEffort ==
    /\ nruns < MaxTasks
    /\ \E task \in Tasks, importable \in BOOLEAN :
           CreateFor(task, search_we_id(SearchText(task)), importable)

NextPlugin == CreateWorkEffort

SpecPlugin == InitPlugin /\ [][NextPlugin]_vars

(***************************************************************************)
(* Claims about the plugin.                                                *)
(***************************************************************************)
\* the id a folder name starts with
IdOfFolder(n) == SubSeq(n, 1, WeIdLength)

\* the work efforts of the directory whose id is the given one in some letter case
ExistingWithId(dir, id) == {n \in DOMAIN dir : str_lower(IdOfFolder(n)) = str_lower(id)}

\* the last call was for a task that mentions the id of an existing work effort
MentionsExisting(call) ==
    /\ call.called
    /\ search_we_id(SearchText(call.source_task)) # <<>>
    /\ ExistingWithId(call.before, search_we_id(SearchText(call.source_task))) # {}

\* C8: when the task of a create_work_effort call mentions, in any letter case,
\* the id of a work effort that exists, the call links to it: linked_to_existing
\* is true, the directory has no new folder, and the we_id returned is the id
\* of that existing work effort as its folder writes it.
C8_AnyCaseLinksToExisting ==
    MentionsExisting(created)
    => /\ ~created.raised
       /\ created.linked_to_existing
       /\ DOMAIN wes = DOMAIN created.before
       /\ created.we_id \in
             {IdOfFolder(n) : n \in ExistingWithId(created.before,
                                        search_we_id(SearchText(created.source_task)))}

(***************************************************************************)
(* tools/id-generator/generate.py.  Identifiers are character sequences.   *)
(***************************************************************************)
DigitValue(c) == CHOOSE v \in 0..9 : DIGITS[v + 1] = c

\* int() of a run of digits
RECURSIVE ToInt(_)
ToInt(s) == IF s = <<>> THEN 0 ELSE 10 * ToInt(SubSeq(s, 1, Len(s) - 1)) + DigitValue(s[Len(s)])

AllDigits(s, a, b) == \A k \in a..b : IsDigit(s[k])
AllLowerAlnum(s, a, b) == \A k \in a..b : IsLowerAlnum(s[k])

\* $ matches at the end of the string and before a newline that ends it
EndsAfter(s, n) == Len(s) = n \/ (Len(s) = n + 1 /\ s[n + 1] = "\n")

WE_DASH == <<"W", "E", "-">>
CKPT_DASH == <<"C", "K", "P", "T", "-">>

\* PATTERNS['work_effort'] = ^WE-(\d{6})-([a-z0-9]{4})$
PATTERNS_work_effort(s) ==
    /\ Len(s) >= 14 /\ EndsAfter(s, 14)
    /\ SubSeq(s, 1, 3) = WE_DASH /\ AllDigits(s, 4, 9)
    /\ s[10] = "-" /\ AllLowerAlnum(s, 11, 14)

\* PATTERNS['ticket'] = ^TKT-([a-z0-9]{4})-(\d{3})$
PATTERNS_ticket(s) ==
    /\ Len(s) >= 12 /\ EndsAfter(s, 12)
    /\ SubSeq(s, 1, 4) = TKT_PREFIX /\ AllLowerAlnum(s, 5, 8)
    /\ s[9] = "-" /\ AllDigits(s, 10, 12)

\* PATTERNS['checkpoint'] = ^CKPT-(\d{6})-(\d{4})$
PATTERNS_checkpoint(s) ==
    /\ Len(s) >= 16 /\ EndsAfter(s, 16)
    /\ SubSeq(s, 1, 5) = CKPT_DASH /\ AllDigits(s, 6, 11)
    /\ s[12] = "-" /\ AllDigits(s, 13, 16)

\* a moment: [year, month, day, hour, minute]
Format02d(n) == ZeroPad(Decimal(n), 2)

\* strftime('%y%m%d') and strftime('%H%M')
strftime_ymd(now) == Format02d(now.year % 100) \o Format02d(now.month) \o Format02d(now.day)
strftime_HM(now) == Format02d(now.hour) \o Format02d(now.minute)

\* strftime('%Y-%m-%d') and strftime('%H:%M')
strftime_Y_m_d(d) ==
    ZeroPad(Decimal(d.year), 4) \o <<"-">> \o Format02d(d.month) \o <<"-">> \o Format02d(d.day)
strftime_H_M(d) == Format02d(d.hour) \o <<":">> \o Format02d(d.minute)

IsLeap(y) == (y % 4 = 0 /\ y % 100 # 0) \/ y % 400 = 0
DaysIn(y, m) ==
    IF m = 2 THEN (IF IsLeap(y) THEN 29 ELSE 28)
    ELSE IF m \in {4, 6, 9, 11} THEN 30 ELSE 31

\* %y of strptime: 00..68 is 2000..2068, 69..99 is 1969..1999
Century(yy) == IF yy < 69 THEN 2000 + yy ELSE 1900 + yy

\* datetime.strptime(digits, '%y%m%d%H%M'); <<>> when it raises ValueError
Moment(y, m, d, H, M) ==
    IF m \in 1..12 /\ d >= 1 /\ d <= DaysIn(y, m) /\ H <= 23 /\ M <= 59
    THEN [year |-> y, month |-> m, day |-> d, hour |-> H, minute |-> M]
    ELSE <<>>
strptime(date_str, time_str) ==
    Moment(Century(ToInt(SubSeq(date_str, 1, 2))), ToInt(SubSeq(date_str, 3, 4)),
           ToInt(SubSeq(date_str, 5, 6)), ToInt(SubSeq(time_str, 1, 2)),
           ToInt(SubSeq(time_str, 3, 4)))

\* _parse_work_effort, _parse_ticket, _parse_checkpoint on the groups of the
\* match; None is <<>>
DateOrNone(dt) == IF dt = <<>> THEN <<>> ELSE strftime_Y_m_d(dt)
TimeOrNone(dt) == IF dt = <<>> THEN <<>> ELSE strftime_H_M(dt)

parse_work_effort(date_str, suffix) ==
    [date |-> DateOrNone(strptime(date_str, <<"0", "0", "0", "0">>)), suffix |-> suffix]
parse_ticket(suffix, digits) == [parent_suffix |-> suffix, number |-> ToInt(digits)]
parse_checkpoint(date_str, time_str) ==
    [date |-> DateOrNone(strptime(date_str, time_str)),
     time |-> TimeOrNone(strptime(date_str, time_str))]

\* validate_id: the first pattern that matches decides the type
validate_id(id_string) ==
    IF PATTERNS_work_effort(id_string)
    THEN [valid |-> TRUE, type |-> "work_effort", id |-> id_string,
          parts |-> parse_work_effort(SubSeq(id_string, 4, 9), SubSeq(id_string, 11, 14))]
    ELSE IF PATTERNS_ticket(id_string)
    THEN [valid |-> TRUE, type |-> "ticket", id |-> id_string,
          parts |-> parse_ticket(SubSeq(id_string, 5, 8), SubSeq(id_string, 10, 12))]
    ELSE IF PATTERNS_checkpoint(id_string)
    THEN [valid |-> TRUE, type |-> "checkpoint", id |-> id_string,
          parts |-> parse_checkpoint(SubSeq(id_string, 6, 11), SubSeq(id_string, 13, 16))]
    ELSE [valid |-> FALSE, type |-> "None", id |-> id_string, parts |-> <<>>]

\* _generate_work_effort_id and _generate_checkpoint_id at the moment now
generate_id_work_effort(now, suffix) == WE_DASH \o strftime_ymd(now) \o <<"-">> \o suffix
generate_id_checkpoint(now) == CKPT_DASH \o strftime_ymd(now) \o <<"-">> \o strftime_HM(now)

\* re.compile(f'TKT-{suffix}-(\d{3})').search(name): where it matches
TicketOfSuffixAt(name, suffix, i) ==
    /\ i + 11 <= Len(name)
    /\ SubSeq(name, i, i + 8) = TKT_PREFIX \o suffix \o <<"-">>
    /\ AllDigits(name, i + 9, i + 11)

\* int(match.group(1)) of the leftmost match
NumberAt(name, starts) == ToInt(SubSeq(name, Min(starts) + 9, Min(starts) + 11))

\* the numbers found in the names of the *.md files under _work_efforts
IsMarkdown(name) ==
    Len(name) >= Len(MD_SUFFIX) /\ SubSeq(name, Len(name) - Len(MD_SUFFIX) + 1, Len(name)) = MD_SUFFIX
TicketNumbers(names, suffix) ==
    {NumberAt(n, {i \in DOMAIN n : TicketOfSuffixAt(n, suffix, i)}) :
        n \in {m \in names : IsMarkdown(m) /\ \E i \in DOMAIN m : TicketOfSuffixAt(m, suffix, i)}}

\* _find_next_ticket_number: dir is [exists, names] for cwd/_work_efforts
find_next_ticket_number(dir, suffix) ==
    IF ~dir.exists THEN 1 ELSE Max(TicketNumbers(dir.names, suffix) \cup {0}) + 1

\* _generate_ticket_id: parent is <<>> when it is not given (None or ''),
\* number is [given, value]; the result is [raised, id, number, suffix]
NoNumber == [given |-> FALSE, value |-> 0]
Number(n) == [given |-> TRUE, value |-> n]
TicketIdOf(suffix, n) ==
    [raised |-> FALSE, id |-> TKT_PREFIX \o suffix \o <<"-">> \o Format03d(n),
     number |-> n, suffix |-> suffix]
TicketWithSuffix(dir, suffix, number) ==
    TicketIdOf(suffix, IF number.given THEN number.value
                       ELSE find_next_ticket_number(dir, suffix))
generate_id_ticket(dir, parent, number, random_suffix) ==
    IF parent # <<>>
    THEN IF PATTERNS_work_effort(parent)
         THEN TicketWithSuffix(dir, SubSeq(parent, 11, 14), number)
         ELSE [raised |-> TRUE, id |-> <<>>, number |-> 0, suffix |-> <<>>]
    ELSE TicketWithSuffix(dir, random_suffix, number)

\* generate_id: the switch on id_type.lower()
generate_id(id_type, dir, parent, number, now, random_suffix) ==
    IF id_type \in {"work-effort", "work_effort", "we"}
    THEN [raised |-> FALSE, id |-> generate_id_work_effort(now, random_suffix),
          number |-> 0, suffix |-> random_suffix]
    ELSE IF id_type \in {"ticket", "tkt"}
    THEN generate_id_ticket(dir, parent, number, random_suffix)
    ELSE IF id_type \in {"checkpoint", "ckpt"}
    THEN [raised |-> FALSE, id |-> generate_id_checkpoint(now), number |-> 0, suffix |-> <<>>]
    ELSE [raised |-> TRUE, id |-> <<>>, number |-> 0, suffix |-> <<>>]

(***************************************************************************)
(* The id generator at work: generate.py work-effort, ticket, checkpoint   *)
(* (with --json, which validates what was generated) and validate.         *)
(***************************************************************************)
MaxNumber == 1000

A1B2 == <<"a", "1", "b", "2">>
RandomSuffixes == {ABCD, A1B2}
Nows == {[year |-> 2026, month |-> 1, day |-> 1, hour |-> 9, minute |-> 5],
         [year |-> 2026, month |-> 12, day |-> 31, hour |-> 23, minute |-> 59]}
Parents == {<<>>, ID_CANONICAL, ID_LOWER}
NumberArgs == {NoNumber} \cup {Number(n) : n \in {0, 1, MaxNumber - 1, MaxNumber}}

UI_MD == <<"_", "u", "i">> \o MD_SUFFIX
TicketFile(suffix, n) == TKT_PREFIX \o suffix \o <<"-">> \o Format03d(n) \o UI_MD
DateKeyedTicketFile(n) == TKT_PREFIX \o DATE_1 \o <<"-">> \o Format03d(n) \o UI_MD
\* the work effort whose folder holds the file: the one of its suffix, and
\* WE-260101-abcd for the date-keyed ticket files and the index
ID_A1B2 == WeId(<<"W", "E">>, DATE_1, A1B2)
FolderOf(name) == IF name = TicketFile(A1B2, 2) THEN ID_A1B2 ELSE ID_CANONICAL
IdGenDirs ==
    {[exists |-> FALSE, names |-> {}]} \cup
    {[exists |-> TRUE, names |-> N] :
        N \in {{}, {TicketFile(ABCD, 1)},
               {TicketFile(ABCD, MaxNumber - 1), ID_CANONICAL \o INDEX_SUFFIX},
               {TicketFile(A1B2, 2), TicketFile(ABCD, 1)},
               {TicketFile(ABCD, 1), TicketFile(ABCD, 3)},
               {DateKeyedTicketFile(1), ID_CANONICAL \o INDEX_SUFFIX},
               {DateKeyedTicketFile(1), DateKeyedTicketFile(2), TicketFile(ABCD, 1)}}}

DATE_KEYED_TICKET == TKT_PREFIX \o DATE_1 \o <<"-", "0", "0", "1">>
SUFFIX_KEYED_TICKET == TKT_PREFIX \o ABCD \o <<"-", "0", "0", "1">>
IdsToValidate ==
    {DATE_KEYED_TICKET, SUFFIX_KEYED_TICKET, ID_CANONICAL, ID_LOWER,
     CKPT_DASH \o DATE_1 \o <<"-", "0", "9", "0", "5">>,
     CKPT_DASH \o DATE_1 \o <<"-", "2", "4", "0", "0">>,
     TKT_PREFIX \o ABCD \o <<"-", "1", "0", "0", "0">>}

NotGenerated == [command |-> "none"]

InitIds ==
    /\ idgen \in [dir : IdGenDirs, last : {NotGenerated}]
    /\ nruns = 0
    /\ LinksIdle
    /\ NamingIdle
    /\ PluginIdle
    /\ PollIdle

\* cmd_generate with --json: the kwargs are the arguments that are truthy,
\* and validate_id is called on the new id when generate_id returned one
Generated(type, parent, number, now, g) ==
    /\ idgen' = [idgen EXCEPT !.last =
                    [command |-> type, parent |-> parent, number |-> number, now |-> now,
                     raised |-> g.raised, id |-> g.id, used |-> [number |-> g.number,
                                                                  suffix |-> g.suffix],
                     result |-> IF g.raised THEN <<>> ELSE validate_id(g.id)]]
    /\ UNCHANGED <<files, lastRun, prevRun, nruns, tree, violations, nfix, wes, created,
                   poll>>

cmd_generate(type, parent, number, now, random_suffix) ==
    Generated(type, parent, IF number.value = 0 THEN NoNumber ELSE number, now,
              generate_id(type, idgen.dir, parent,
                          IF number.value = 0 THEN NoNumber ELSE number, now, random_suffix))

GenerateWorkEffort ==
    \E now \in Nows, r \in RandomSuffixes : cmd_generate("work-effort", <<>>, NoNumber, now, r)

GenerateTicket ==
    \E parent \in Parents, number \in NumberArgs, now \in Nows, r \in RandomSuffixes :
        cmd_generate("ticket", parent, number, now, r)

GenerateCheckpoint ==
    \E now \in Nows, r \in RandomSuffixes : cmd_generate("checkpoint", <<>>, NoNumber, now, r)

\* cmd_validate
ValidateId ==
    /\ \E id \in IdsToValidate :
          idgen' = [idgen EXCEPT !.last = [command |-> "validate", id |-> id,
                                           result |-> validate_id(id)]]
    /\ UNCHANGED <<files, lastRun, prevRun, nruns, tree, violations, nfix, wes, created,
                   poll>>

NextIds == GenerateWorkEffort \/ GenerateTicket \/ GenerateCheckpoint \/ ValidateId

SpecIds == InitIds /\ [][NextIds]_vars

(***************************************************************************)
(* Claims about the id generator.                                          *)
(***************************************************************************)
KindOf(command) ==
    CASE command = "work-effort" -> "work_effort"
      [] command = "ticket" -> "ticket"
      [] command = "checkpoint" -> "checkpoint"

\* a generate command returned an id
GeneratedAnId(l) == l.command \in {"work-effort", "ticket", "checkpoint"} /\ ~l.raised

\* what validate_id recovers is what the generation used
Recovers(l) ==
    CASE l.command = "work-effort" ->
            /\ l.result.parts.date = strftime_Y_m_d(l.now)
            /\ l.result.parts.suffix = l.used.suffix
      [] l.command = "checkpoint" ->
            /\ l.result.parts.date = strftime_Y_m_d(l.now)
            /\ l.result.parts.time = strftime_H_M(l.now)
      [] l.command = "ticket" ->
            /\ l.result.parts.parent_suffix = l.used.suffix
            /\ l.parent # <<>> => l.result.parts.parent_suffix = SubSeq(l.parent, 11, 14)
            /\ l.result.parts.number = l.used.number

\* C11: for every kind and every choice of parameters generate_id accepts,
\* validate_id of the generated id is valid, reports the kind that was
\* generated, and recovers the components used: the date for work efforts and
\* checkpoints, the parent suffix and the sequence number for tickets.
C11_GenerateValidateRoundTrip ==
    GeneratedAnId(idgen.last)
    => /\ idgen.last.result.valid
       /\ idgen.last.result.type = KindOf(idgen.last.command)
       /\ Recovers(idgen.last)

\* a ticket identifier in one of the two grammars was given to validate
TicketGrammars == {DATE_KEYED_TICKET, SUFFIX_KEYED_TICKET}
ValidatedTicket(l) == l.command = "validate" /\ l.id \in TicketGrammars

\* the same identifier as the naming linter and the obsidian tools see it
MiddleOf(id) == IF id = DATE_KEYED_TICKET THEN "260101" ELSE "abcd"
TokenOf(id) == IF id = DATE_KEYED_TICKET THEN TKT_D ELSE TKT_S

\* C12: every component that recognizes ticket identifiers accepts both the
\* date-keyed form TKT-<6 digits>-<3 digits> and the suffix-keyed form
\* TKT-<4 lowercase alphanumerics>-<3 digits>: validate_id of the id
\* generator, the ticket name validator of the naming linter, and the ticket
\* pattern of the obsidian tools.
C12_BothTicketGrammarsAccepted ==
    ValidatedTicket(idgen.last)
    => /\ idgen.last.result.valid
       /\ idgen.last.result.type = "ticket"
       /\ validate_ticket_name(TicketName(MiddleOf(idgen.last.id), "001", "fix"))
       /\ TICKET_ID_PATTERN(<<TokenOf(idgen.last.id)>>) # {}

\* the ticket files among the names, in either grammar, and their sequence
\* numbers: TKT-<4 alphanumerics>-NNN_<title>.md and TKT-<6 digits>-NNN_<title>.md
IsSuffixKeyedFile(name) ==
    /\ Len(name) >= 13
    /\ SubSeq(name, 1, 4) = TKT_PREFIX
    /\ name[9] = "-"
    /\ AllDigits(name, 10, 12)
    /\ name[13] = "_"
    /\ IsMarkdown(name)
IsDateKeyedFile(name) ==
    /\ Len(name) >= 15
    /\ SubSeq(name, 1, 4) = TKT_PREFIX
    /\ AllDigits(name, 5, 10)
    /\ name[11] = "-"
    /\ AllDigits(name, 12, 14)
    /\ name[15] = "_"
    /\ IsMarkdown(name)
SequenceNumberOf(name) ==
    IF IsDateKeyedFile(name) THEN ToInt(SubSeq(name, 12, 14)) ELSE ToInt(SubSeq(name, 10, 12))
TicketIdOfFile(name) ==
    IF IsDateKeyedFile(name) THEN SubSeq(name, 1, 14) ELSE SubSeq(name, 1, 12)
TicketFilesUnder(dir, parent) ==
    {n \in dir.names : (IsSuffixKeyedFile(n) \/ IsDateKeyedFile(n)) /\ FolderOf(n) = parent}

\* a ticket was generated for a parent without an explicit number
GeneratedNextTicket(l) ==
    l.command = "ticket" /\ ~l.raised /\ ~l.number.given /\ l.parent # <<>>

\* C26: when no explicit sequence number is supplied, the generated ticket
\* identifier carries a sequence number that no existing ticket file under the
\* parent work effort uses, in whichever of the two ticket grammars the file
\* is named, and so is not the identifier of an existing ticket of the parent.
C26_NextTicketNumberIsUnused ==
    GeneratedNextTicket(idgen.last)
    => \A n \in TicketFilesUnder(idgen.dir, idgen.last.parent) :
          /\ SequenceNumberOf(n) # idgen.last.used.number
          /\ TicketIdOfFile(n) # idgen.last.id

(***************************************************************************)
(* The naming validator run on the directory the plugin writes to: names   *)
(* are character sequences here.                                           *)
(***************************************************************************)
str_endswith(s, suffix) ==
    Len(s) >= Len(suffix) /\ SubSeq(s, Len(s) - Len(suffix) + 1, Len(s)) = suffix

\* TICKET_PATTERN = ^TKT-\d{6}-\d{3}_[a-z0-9_]+\.md$ matches the file name
TICKET_PATTERN(s) ==
    /\ Len(s) >= 19
    /\ str_startswith(s, TKT_PREFIX)
    /\ \A k \in 5..10 : IsDigit(s[k])
    /\ s[11] = "-"
    /\ \A k \in 12..14 : IsDigit(s[k])
    /\ s[15] = "_"
    /\ \A k \in 16..(Len(s) - 3) : IsLowerAlnum(s[k]) \/ s[k] = "_"
    /\ str_endswith(s, MD_SUFFIX)

\* we_id.split('-')[1] and ticket_id.split('-')[1] of names that matched
DatePart(name, prefix_length) == SubSeq(name, prefix_length + 1, prefix_length + 6)

FolderViolation(type, folder, name) == [type |-> type, folder |-> folder, name |-> name]

\* _validate_tickets_dir: the violations of the *.md files of the directory
validate_created_tickets(tickets, folder, we_id) ==
    {FolderViolation("INVALID_TICKET_NAME", folder, n) :
        n \in {x \in DOMAIN tickets : str_endswith(x, MD_SUFFIX) /\ ~TICKET_PATTERN(x)}}
    \cup
    {FolderViolation("TICKET_DATE_MISMATCH", folder, n) :
        n \in {x \in DOMAIN tickets :
                  /\ str_endswith(x, MD_SUFFIX)
                  /\ TICKET_PATTERN(x)
                  /\ DatePart(x, 4) # DatePart(we_id, 3)}}

\* step 3 of _validate_work_effort: the index file of the folder.  The code
\* reports index_files[0] of a glob in no particular order: every file that can
\* be the one reported is in the set
validate_index_name(index_files, folder, we_id) ==
    IF we_id \o INDEX_SUFFIX \in DOMAIN index_files THEN {}
    ELSE IF \E n \in DOMAIN index_files : str_endswith(n, INDEX_SUFFIX)
         THEN {FolderViolation("INCORRECT_INDEX_NAME", folder, n) :
                  n \in {x \in DOMAIN index_files : str_endswith(x, INDEX_SUFFIX)}}
         ELSE {FolderViolation("MISSING_INDEX_FILE", folder, <<>>)}

\* WorkEffortValidator._validate_work_effort on one folder of the directory
validate_we_dir(fs, folder) ==
    IF validate_we_folder_name(folder)
    THEN {FolderViolation("INVALID_FOLDER_NAME", folder, <<>>)}
    ELSE validate_index_name(fs[folder].files, folder, IdOfFolder(folder))
         \cup validate_created_tickets(fs[folder].tickets, folder, IdOfFolder(folder))

\* WorkEffortValidator.validate on the root: the folders whose name starts with WE-
validate_root(fs) ==
    UNION {validate_we_dir(fs, folder) :
              folder \in {n \in DOMAIN fs : str_startswith(n, <<"W", "E", "-">>)}}

NamingTypes ==
    {"INVALID_FOLDER_NAME", "INCORRECT_INDEX_NAME", "INVALID_TICKET_NAME",
     "TICKET_DATE_MISMATCH"}

\* the violation is about a document the call created: the folder and its
\* index when the work effort is new, and the tickets written by the call
AboutCreated(v, call) ==
    /\ v.folder = call.folder_path
    /\ v.type \in NamingTypes
    /\ \/ v.type = "INVALID_TICKET_NAME" /\ \E i \in DOMAIN call.created_tickets :
                                               call.created_tickets[i] = v.name
       \/ v.type = "TICKET_DATE_MISMATCH" /\ \E i \in DOMAIN call.created_tickets :
                                                call.created_tickets[i] = v.name
       \/ v.type \in {"INVALID_FOLDER_NAME", "INCORRECT_INDEX_NAME"}
          /\ ~call.linked_to_existing

CreatedSomething(call) == call.called /\ ~call.raised

\* C13: after create_work_effort returned, the naming validator run on the
\* directory reports no INVALID_FOLDER_NAME, INCORRECT_INDEX_NAME,
\* INVALID_TICKET_NAME or TICKET_DATE_MISMATCH violation for the folder, the
\* index or the tickets that the call created, whatever the title of the task.
C13_CreatorsIntroduceNoViolation ==
    CreatedSomething(created)
    => \A v \in validate_root(wes) : ~AboutCreated(v, created)

(***************************************************************************)
(* The tools that take --dry-run, each run once on a corpus of its kind:   *)
(* the three fixers and check.py on the markdown files, the naming linter  *)
(* on a work effort folder.                                                *)
(***************************************************************************)
MaxDryRuns == 1

EmptyTree == Tree(<<>>, FALSE, <<>>)

InitDry ==
    /\ \/ files \in FixCorpora /\ tree = EmptyTree
       \/ files \in LintCorpora /\ tree = EmptyTree
       \/ files = <<>> /\ tree \in NamingTrees
    /\ violations = <<>>
    /\ nfix = 0
    /\ lastRun = NoRun
    /\ prevRun = NoRun
    /\ nruns = 0
    /\ PluginIdle
    /\ IdsIdle
    /\ PollIdle

NextDry ==
    /\ nruns < MaxDryRuns
    /\ (FixLinks \/ FixAll \/ FixObsidianLinks \/ CheckPy \/ NamingLint)

SpecDry == InitDry /\ [][NextDry]_vars

\* the last run was one of the tools, with --dry-run (for the naming linter,
\* with --fix --dry-run)
DryRunOf(run) ==
    /\ run.tool \in {"fix-links", "fix-all", "fix-obsidian-links", "check", "naming-lint"}
    /\ run.dry
    /\ run.tool = "naming-lint" => run.fix

\* what the tool found on disk, and what is there after it
OnDisk(run) == IF run.tool = "naming-lint" THEN tree ELSE files

\* C14: after a run of fix-links.py, fix-all.py, fix-obsidian-links.py or
\* check.py with --dry-run, or of the naming linter with --fix --dry-run, every
\* file has the name and the content it had before the run: nothing was
\* written, renamed or created.
C14_DryRunWritesNothing ==
    DryRunOf(lastRun) => OnDisk(lastRun) = lastRun.before

\* a dry run of fix-all.py on a corpus that a real run would have changed
C14_DryRunWithPendingFixes ==
    /\ lastRun.tool = "fix-all"
    /\ lastRun.dry
    /\ lastRun.result # lastRun.before
    /\ files = lastRun.before

\* preview_fixes: the violations, by position, for which it prints a line
\* "Would ..." (the folder name matched, or validate had stopped at it)
preview_fixes(vs) ==
    {k \in DOMAIN vs :
        vs[k].type \in {"INCORRECT_INDEX_NAME", "ID_MISMATCH", "MISSING_FRONTMATTER_FIELD",
                        "INVALID_TICKET_NAME"}}

\* apply_fixes: the violations, by position, at which its loop changes the
\* folder; k is the position of the first of vs
RECURSIVE AppliedFixes(_, _, _, _)
AppliedFrom(t, r, vs, posix, k) ==
    (IF r.tree # t THEN {k} ELSE {}) \cup AppliedFixes(r.tree, Tail(vs), posix, k + 1)
AppliedFixes(t, vs, posix, k) ==
    IF vs = <<>> THEN {} ELSE AppliedFrom(t, FixStep(t, Head(vs), posix), vs, posix, k)

\* the files a fixer names in its report: those it modified, or would have
ReportedFiles(before, result) == {p \in DOMAIN before : result[p] # before[p]}

\* what the fixer computes for each file when run for real on the corpus
RealRun(tool, corpus) ==
    [p \in DOMAIN corpus |->
        CASE tool = "fix-links" -> LinkFixer_fix_file(DOMAIN corpus, p, corpus[p])
          [] tool = "fix-all" -> ObsidianFixer_fix_file(DOMAIN corpus, p, corpus[p])
          [] OTHER -> ObsidianLinkFixer_fix_file(DOMAIN corpus, p, corpus[p])]

\* C15: a dry run reports the actions a real fix run on the same corpus would
\* apply.  For the naming linter, the violations for which preview_fixes
\* prints "Would ..." are the violations apply_fixes changes; for the link
\* fixers, the files reported by the dry run are those the real run modifies.
C15_DryRunReportsWhatRealRunApplies ==
    /\ (lastRun.tool = "naming-lint" /\ lastRun.fix /\ lastRun.dry)
       => preview_fixes(violations) = AppliedFixes(tree, violations, lastRun.posix, 1)
    /\ (lastRun.tool \in {"fix-links", "fix-all", "fix-obsidian-links"} /\ lastRun.dry)
       => ReportedFiles(lastRun.before, lastRun.result)
          = ReportedFiles(files, RealRun(lastRun.tool, files))

(***************************************************************************)
(* The exit code of the naming linter (SpecNaming).                        *)
(***************************************************************************)
\* validate() on the folder finds nothing, whatever the order of the globs
NoViolationRemains(t) ==
    \A first \in IF DOMAIN t.index = {} THEN {NoName} ELSE DOMAIN t.index :
    \A order \in GlobOrders(DOMAIN t.tickets) :
        validate_work_effort(t, first, order) = <<>>

\* C16: the exit code of a run is 0 exactly when no error remains: in
\* check-only mode when the run found none, in fix mode when none is left
\* after the fixes were applied (a fix run that repaired every violation it
\* found exits 0).
C16_ExitCodeTellsWhatRemains ==
    lastRun.tool = "naming-lint"
    => (lastRun.exit = 0 <=> NoViolationRemains(tree))

\* the same for the runs that do not write: check-only and dry runs
C16_ExitCodeOfReadOnlyRuns ==
    (lastRun.tool = "naming-lint" /\ ~FixRun(lastRun))
    => (lastRun.exit = 0 <=> NoViolationRemains(tree))

(***************************************************************************)
(* A document the linter cannot handle (SpecLint).                         *)
(***************************************************************************)
\* the files whose frontmatter names neither id nor status, or is otherwise
\* one _check_frontmatter raises on
BadDocuments(corpus) == {p \in DOMAIN corpus : LinterRaises(p, corpus[p])}

\* C17: a run of check.py, validate.py or lint.py on a corpus whose root
\* exists terminates normally, also when a document has malformed
\* frontmatter or frontmatter without the id and status keys: the run does
\* not end in an exception, and the other documents are still checked.
C17_BadDocumentNeverEndsTheRun ==
    (lastRun.tool \in {"check", "validate", "lint"} /\ BadDocuments(lastRun.before) # {})
    => ~lastRun.crashed

(***************************************************************************)
(* obsidian-linter/validate.py: the lookup keys of the markdown files and  *)
(* the check for keys that differ in letter case only.  A file is the      *)
(* path from the root, a sequence of characters ending in ".md".           *)
(***************************************************************************)
\* md_file.stem, and the path as with_suffix('') and replace('/', '_') leave it
NameStart(path) == Max({0} \cup {i \in DOMAIN path : path[i] = "/"}) + 1
PathStem(path) == SubSeq(path, NameStart(path), Len(path) - Len(MD_SUFFIX))
WithoutSuffix(path) == SubSeq(path, 1, Len(path) - Len(MD_SUFFIX))
SlashesReplaced(path) == [i \in DOMAIN path |-> IF path[i] = "/" THEN "_" ELSE path[i]]

\* the four keys _index_markdown_files stores a file under
LookupKeys(path) == {PathStem(path), path, WithoutSuffix(path), SlashesReplaced(path)}

\* self.markdown_files after _index_markdown_files met the files in the
\* order rglob yields them: a key met again is given the later file
index_markdown_files(order) ==
    [key \in UNION {LookupKeys(order[i]) : i \in DOMAIN order} |->
        order[Max({i \in DOMAIN order : key \in LookupKeys(order[i])})]]

\* case_index of _check_case_sensitivity, with set(paths) for each key.lower()
case_index(by_key) ==
    [case_key \in {str_lower(key) : key \in DOMAIN by_key} |->
        {by_key[key] : key \in {k \in DOMAIN by_key : str_lower(k) = case_key}}]

CaseConflicts(index) == {case_key \in DOMAIN index : Cardinality(index[case_key]) > 1}

\* _check_case_sensitivity: at the first conflict the issue is built with
\* unique_paths[0], unique_paths being a set: TypeError, before any append
check_case_sensitivity(by_key) ==
    [crashed |-> CaseConflicts(case_index(by_key)) # {}, issues |-> {}]

(***************************************************************************)
(* validate.py run once over a directory of a few documents.               *)
(***************************************************************************)
MaxDocs == 3

FOO_MD == <<"F", "o", "o", ".", "m", "d">>
FOO_LOWER_MD == <<"f", "o", "o", ".", "m", "d">>
BAR_MD == <<"b", "a", "r", ".", "m", "d">>
SUB_FOO_MD == <<"s", "u", "b", "/", "f", "o", "o", ".", "m", "d">>
SUB_BAR_MD == <<"s", "u", "b", "/", "B", "a", "r", ".", "m", "d">>
SUB_UNDERSCORE_FOO_MD == <<"S", "u", "b", "_", "f", "o", "o", ".", "m", "d">>
NOTES_MD == <<"n", "o", "t", "e", "s", ".", "m", "d">>

DocPaths == {FOO_MD, FOO_LOWER_MD, BAR_MD, SUB_FOO_MD, SUB_BAR_MD, SUB_UNDERSCORE_FOO_MD,
             NOTES_MD}

NotValidated == [tool |-> "none"]

InitCase ==
    /\ \E present \in {d \in SUBSET DocPaths : Cardinality(d) <= MaxDocs} :
          files = [path \in present |-> <<WORD, "\n">>]
    /\ lastRun = NotValidated
    /\ prevRun = NotValidated
    /\ nruns = 0
    /\ NamingIdle
    /\ PluginIdle
    /\ IdsIdle
    /\ PollIdle

\* main of validate.py as far as the keys go: the index is built when the
\* validator is constructed, validate_all runs the check, and print_results
\* is reached only when it returned
ValidateKeys(order) ==
    /\ lastRun' = [tool |-> "validate", before |-> files,
                   crashed |-> check_case_sensitivity(index_markdown_files(order)).crashed,
                   case_issues |-> check_case_sensitivity(index_markdown_files(order)).issues]
    /\ prevRun' = lastRun
    /\ nruns' = nruns + 1
    /\ UNCHANGED <<files, tree, violations, nfix, wes, created, idgen, poll>>

ValidateCase ==
    /\ nruns < MaxRuns
    /\ \E order \in GlobOrders(DOMAIN files) : ValidateKeys(order)

NextCase == ValidateCase

SpecCase == InitCase /\ [][NextCase]_vars

\* two distinct documents with lookup keys that are equal when letter case
\* is ignored and different when it is not
CaseCollision(corpus) ==
    \E p, q \in DOMAIN corpus :
        /\ p # q
        /\ \E k \in LookupKeys(p), l \in LookupKeys(q) : k # l /\ str_lower(k) = str_lower(l)

\* C18: when two distinct documents have lookup keys that differ in letter
\* case only, the validator completes and reports a case-collision issue of
\* severity warning naming them; when no two documents do, it reports no
\* case-collision issue.
C18_CaseCollisionIsAWarning ==
    lastRun.tool = "validate"
    => /\ ~lastRun.crashed
       /\ CaseCollision(lastRun.before) <=> lastRun.case_issues # {}

(***************************************************************************)
(* Linking a task to the work effort it names (SpecPlugin).                *)
(***************************************************************************)
Occurs(text, id) ==
    \E i \in DOMAIN text :
        i + Len(id) - 1 <= Len(text) /\ SubSeq(text, i, i + Len(id) - 1) = id

\* the folders of the directory whose id, as written, is in the task
MentionedFolders(dir, task) == {n \in DOMAIN dir : Occurs(SearchText(task), IdOfFolder(n))}

\* the folders whose id is the first id found in the task
FirstMentionedFolders(dir, task) ==
    {n \in DOMAIN dir : IdOfFolder(n) = search_we_id(SearchText(task))}

\* the call linked the task to one of the folders and left the directory
\* with the folders it had, each with the index file content it had
LinkedTo(call, folders, dir) ==
    /\ ~call.raised
    /\ call.linked_to_existing
    /\ call.folder_path \in folders
    /\ call.we_id = IdOfFolder(call.folder_path)
    /\ DOMAIN dir = DOMAIN call.before
    /\ \A n \in DOMAIN dir : dir[n].files = call.before[n].files

\* C19 as stated: when the title or the description of the task contains the
\* exact id of a work effort of the directory, create_work_effort returns
\* linked_to_existing with the we_id and folder_path of that work effort,
\* creates no folder and leaves the index file as it was.
C19_AnyMentionLinks ==
    (created.called /\ MentionedFolders(created.before, created.source_task) # {})
    => LinkedTo(created, MentionedFolders(created.before, created.source_task), wes)

\* C19: when the first id found in the title followed by the description of
\* the task is the exact id of a work effort of the directory,
\* create_work_effort returns linked_to_existing with the we_id and
\* folder_path of that work effort, creates no folder and leaves the content
\* of every index file as it was.
C19_FirstMentionLinks ==
    (created.called /\ FirstMentionedFolders(created.before, created.source_task) # {})
    => LinkedTo(created, FirstMentionedFolders(created.before, created.source_task), wes)

\* a task with subtasks was linked to the work effort it names first
C19_LinkedWithTickets ==
    /\ created.called
    /\ FirstMentionedFolders(created.before, created.source_task) # {}
    /\ created.linked_to_existing
    /\ created.created_tickets # <<>>

(***************************************************************************)
(* plugins/todoist/poll.py: process_tasks.  Todoist holds, for each task   *)
(* with the trigger label, whether it still has the label and how many     *)
(* comments were posted on it; a task is known by its place in the list.    *)
(***************************************************************************)
MaxFetched == 2

\* api.py: what a request to Todoist comes to.  "ok": a response whose body
\* is read; "TodoistAPIError": an HTTP error status or a network error, which
\* _request raises as TodoistAPIError; "unreadable": the request was served
\* but response.json() raises on the body, which is no TodoistAPIError
ApiOutcomes == {"ok", "TodoistAPIError", "unreadable"}

Event(task, step, result) == [task |-> task, step |-> step, result |-> result]

\* TodoistPlugin.post_feedback: True when add_comment returned, False when
\* it raised TodoistAPIError; any other exception is not caught
post_feedback(outcome) ==
    [posted |-> outcome # "TodoistAPIError",
     result |-> CASE outcome = "ok" -> "True"
                  [] outcome = "TodoistAPIError" -> "False"
                  [] OTHER -> "raised"]

\* TodoistAPI.remove_label_from_task: get_task, then update_task with the
\* labels but the trigger label
remove_label_from_task(got, updated) ==
    [removed |-> got = "ok" /\ updated # "TodoistAPIError",
     outcome |-> IF got = "ok" THEN updated ELSE got]

\* TodoistPlugin.cleanup: True when remove_label_from_task returned, False
\* when it raised TodoistAPIError; any other exception is not caught
cleanup(removal) ==
    [removed |-> removal.removed,
     result |-> CASE removal.outcome = "ok" -> "True"
                  [] removal.outcome = "TodoistAPIError" -> "False"
                  [] OTHER -> "raised"]

\* the loop goes to the next task (also on `except Exception: continue`),
\* or process_tasks returns
NextTask(p) ==
    IF p.i < Len(p.tasks) THEN [p EXCEPT !.i = @ + 1, !.pc = "create"]
    ELSE [p EXCEPT !.pc = "returned"]

\* the statement after post_feedback, were the label kept on a failed post
StepAfterFeedbackWhenPosted(p, feedback) ==
    IF feedback.result # "True" THEN NextTask(p) ELSE [p EXCEPT !.pc = "cleanup"]

\* the statement process_tasks goes to after post_feedback: the value
\* returned is printed and nothing else, an exception ends the task
StepAfterFeedback(p, feedback) ==
    IF feedback.result = "raised" THEN NextTask(p) ELSE [p EXCEPT !.pc = "cleanup"]

\* tasks = plugin.fetch_tasks(): the tasks with the label; on any exception
\* process_tasks returns 0
fetch_tasks(p, outcome) ==
    IF outcome = "ok"
    THEN NextTask([p EXCEPT !.tasks = [k \in DOMAIN p.remote |-> p.remote[k].task], !.i = 0])
    ELSE [p EXCEPT !.pc = "returned"]

\* work_effort = plugin.create_work_effort(task): an exception takes the loop
\* to the next task
Created(p, raised) ==
    IF raised
    THEN NextTask([p EXCEPT !.log = Append(@, Event(p.i, "create", "raised"))])
    ELSE [p EXCEPT !.log = Append(@, Event(p.i, "create", "done")), !.pc = "feedback"]

\* feedback_success = plugin.post_feedback(task, work_effort)
FeedbackPosted(p, feedback) ==
    StepAfterFeedback(
        [p EXCEPT !.log = Append(@, Event(p.i, "feedback", feedback.result)),
                  !.remote[p.i].comments = @ + (IF feedback.posted THEN 1 ELSE 0)],
        feedback)

\* cleanup_success = plugin.cleanup(task), then processed += 1
CleanedUp(p, cleaned) ==
    NextTask([p EXCEPT !.log = Append(@, Event(p.i, "cleanup", cleaned.result)),
                       !.remote[p.i].labelled = @ /\ ~cleaned.removed,
                       !.processed = @ + (IF cleaned.result = "raised" THEN 0 ELSE 1)])

(***************************************************************************)
(* poll.py --once: one call of process_tasks, a step at a time.            *)
(***************************************************************************)
PollTasks ==
    {[title |-> BUILD, description |-> SUBTASK],
     [title |-> BANGS, description |-> <<>>],
     [title |-> FIX \o ID_CANONICAL, description |-> <<>>]}

Labelled(task) == [task |-> task, labelled |-> TRUE, comments |-> 0]

TodoistTasks ==
    UNION {[1..n -> {Labelled(t) : t \in PollTasks}] : n \in 0..MaxFetched}

InitPoll ==
    /\ wes \in ExistingDirs
    /\ \E remote \in TodoistTasks :
          poll = [pc |-> "fetch", remote |-> remote, tasks |-> <<>>, i |-> 0,
                  processed |-> 0, log |-> <<>>]
    /\ created = NotCalled
    /\ nruns = 0
    /\ LinksIdle
    /\ NamingIdle
    /\ IdsIdle

PollFrame == UNCHANGED <<files, lastRun, prevRun, nruns, tree, violations, nfix, idgen>>

FetchTasks ==
    /\ poll.pc = "fetch"
    /\ \E outcome \in ApiOutcomes : poll' = fetch_tasks(poll, outcome)
    /\ UNCHANGED <<wes, created>>
    /\ PollFrame

\* what create_work_effort left and returned, or raised
WorkEffortCreated(r) ==
    /\ wes' = r.fs
    /\ created' = Returned(r, wes)
    /\ poll' = Created(poll, r.raised)
    /\ PollFrame

CreateForTask(task, we_match) ==
    \E importable \in BOOLEAN,
       entry \in (IF we_match = <<>> THEN {<<>>} ELSE find_work_effort_by_id(wes, we_match)),
       generated_id \in (IF we_match = <<>> THEN GeneratedIds ELSE {<<>>}) :
        WorkEffortCreated(
            create_work_effort(wes, task, we_match, entry, generated_id, importable))

CreateStep ==
    /\ poll.pc = "create"
    /\ CreateForTask(poll.tasks[poll.i], search_we_id(SearchText(poll.tasks[poll.i])))

FeedbackStep ==
    /\ poll.pc = "feedback"
    /\ \E outcome \in ApiOutcomes : poll' = FeedbackPosted(poll, post_feedback(outcome))
    /\ UNCHANGED <<wes, created>>
    /\ PollFrame

CleanupStep ==
    /\ poll.pc = "cleanup"
    /\ \E got \in ApiOutcomes, updated \in ApiOutcomes :
          poll' = CleanedUp(poll, cleanup(remove_label_from_task(got, updated)))
    /\ UNCHANGED <<wes, created>>
    /\ PollFrame

NextPoll == FetchTasks \/ CreateStep \/ FeedbackStep \/ CleanupStep

SpecPoll == InitPoll /\ [][NextPoll]_vars

(***************************************************************************)
(* Claims about process_tasks (SpecPoll).                                  *)
(***************************************************************************)
\* the places in the log of the attempts of a step on a task
Attempts(log, task, step) == {j \in DOMAIN log : log[j].task = task /\ log[j].step = step}

\* the steps attempted on the task, in the order of the log
StepsOf(log, task) == SelectSeq(log, LAMBDA e : e.task = task)

StepNames(events) == [j \in DOMAIN events |-> events[j].step]

\* the steps on a task so far are a beginning of create, feedback, cleanup,
\* and a creation that raised is the only step on its task
InOrder(events) ==
    /\ \E n \in 0..3 : StepNames(events) = SubSeq(<<"create", "feedback", "cleanup">>, 1, n)
    /\ (events # <<>> /\ events[1].result = "raised") => Len(events) = 1

\* process_tasks returned after a fetch that gave the tasks
ReturnedFrom(p) == p.pc = "returned" /\ Len(p.tasks) = Len(p.remote)

\* C20: in process_tasks the steps on every fetched task occur in the order
\* create work effort, post feedback, remove trigger label.  The label of a
\* task is removed only after a work effort was created for it; when the
\* creation raises, neither feedback nor removal is attempted for the task
\* and the remaining tasks are still processed; a failed feedback post (one
\* that post_feedback answers with False) does not prevent the removal of
\* the label.
C20_CreateFeedbackCleanupInOrder ==
    /\ \A k \in DOMAIN poll.remote :
          /\ InOrder(StepsOf(poll.log, k))
          /\ ~poll.remote[k].labelled
             => \E j \in Attempts(poll.log, k, "create") : poll.log[j].result = "done"
    /\ ReturnedFrom(poll)
       => \A k \in DOMAIN poll.tasks :
             /\ Attempts(poll.log, k, "create") # {}
             /\ (\E j \in Attempts(poll.log, k, "feedback") : poll.log[j].result = "False")
                => Attempts(poll.log, k, "cleanup") # {}

\* process_tasks returned after a creation that raised on the first task,
\* and a second task whose feedback failed and whose label was removed
C20_RaisedThenFailedFeedback ==
    /\ ReturnedFrom(poll)
    /\ Len(poll.tasks) = 2
    /\ \E j \in Attempts(poll.log, 1, "create") : poll.log[j].result = "raised"
    /\ \E j \in Attempts(poll.log, 2, "feedback") : poll.log[j].result = "False"
    /\ ~poll.remote[2].labelled

(***************************************************************************)
(* Claims about the links the validator resolves (SpecLint).               *)
(***************************************************************************)
\* file_path.parent, in pieces
ParentDir(pieces) == SubSeq(pieces, 1, Max({k \in DOMAIN pieces : pieces[k] = "/"}) - 1)

\* parent_dir / target or parent_dir / (target + ".md") is a file of the corpus
AddressedFromDir(fs, p, target) ==
    \E f \in fs :
        ParentDir(Pieces(p)) \o <<"/">> \o target \in {Pieces(f) \o <<".md">>, Pieces(f)}

\* the links of the document whose target, taken relative to the directory
\* of the document, is a file of the corpus
RelativeLinksAmong(fs, p, content, ranges) ==
    {SubSeq(content, ranges[k][1] + 2, ranges[k][2] - 2) : k \in
        {j \in DOMAIN ranges :
            AddressedFromDir(fs, p,
                TextOf(LinkTarget(SubSeq(content, ranges[j][1] + 2, ranges[j][2] - 2))))}}

RelativeLinksOf(fs, p, content) == RelativeLinksAmong(fs, p, content, WikilinkRanges(content))

\* C21: a wikilink whose target is a path relative to the directory of the
\* linking file, with the addressed file present in that directory, is
\* resolved by the validator and not reported as a broken link.
C21_RelativeLinkIsNotBroken ==
    lastRun.tool = "validate"
    => \A p \in DOMAIN lastRun.before :
          \A link \in RelativeLinksOf(DOMAIN lastRun.before, p, lastRun.before[p]) :
              \A k \in DOMAIN lastRun.issues :
                  ~(/\ lastRun.issues[k].file = p
                    /\ lastRun.issues[k].kind = "broken"
                    /\ lastRun.issues[k].text = link)

(***************************************************************************)
(* Claims about the mentions the link fixers rewrite (SpecFix).            *)
(***************************************************************************)
\* line and identifier of the mentions replaced
MentionsAt(content, bare) ==
    [k \in DOMAIN bare |->
        [line |-> LineOf(content, bare[k].start), id |-> content[bare[k].start]]]

\* the replacements that put a link where a bare identifier was, the ones
\* of an existing link left aside
RewrittenMentions(content, reps) ==
    MentionsAt(content, SelectSeq(reps, LAMBDA r : r.start = r.end))

LinkFixerRewrites(fs, p, content) ==
    RewrittenMentions(content,
        LinkFixerReplacements(fs, p, content,
            Ascending(TICKET_ID_PATTERN(content)), Ascending(WORK_EFFORT_ID_PATTERN(content))))

\* fix-all.py looks for the mentions in the content it has formatted
ObsidianFixerRewrites(fs, p, formatted) ==
    RewrittenMentions(formatted,
        ObsidianFixerReplacements(fs, p, formatted,
            Ascending(TICKET_ID_PATTERN(formatted)),
            Ascending(WORK_EFFORT_ID_PATTERN(formatted))))

FixerRewrites(tool, fs, p, content) ==
    IF tool = "fix-links" THEN LinkFixerRewrites(fs, p, content)
    ELSE ObsidianFixerRewrites(fs, p, ObsidianFixer_fix_formatting(content))

\* line and identifier of the unlinked references check.py reports
ReportedMentions(issues) ==
    [k \in DOMAIN issues |-> [line |-> issues[k].line, id |-> issues[k].text[1]]]

\* C22: on the same corpus, the bare identifier mentions a link fixer
\* (fix-links.py, fix-all.py) rewrites into links are the mentions check.py
\* reports as unlinked ticket or work effort references, one for one.
C22_FixerActsOnLinterFindings ==
    lastRun.tool \in {"fix-links", "fix-all"}
    => \A p \in DOMAIN lastRun.before :
          FixerRewrites(lastRun.tool, DOMAIN lastRun.before, p, lastRun.before[p])
            = ReportedMentions(ObsidianLinter_check_unlinked_references(
                                   DOMAIN lastRun.before, p, lastRun.before[p]))

(***************************************************************************)
(* obsidian-linter/validate.py: the files the wikilinks are counted for    *)
(* and the files reported as orphaned.  Paths, keys and link targets are   *)
(* sequences of characters.                                                *)
(***************************************************************************)
\* possible_paths of _check_broken_wikilinks, in their order; the two Path
\* objects appended after them are equal to no key, a key being a str
possible_paths(target) ==
    <<target, target \o MD_SUFFIX, target \o SubSeq(INDEX_SUFFIX, 1, 6), target \o INDEX_SUFFIX>>

\* target_file of the first possible path that is a key, if there is one
ReferencedFiles(by_key, paths) ==
    {by_key[paths[k]] : k \in
        {j \in DOMAIN paths : paths[j] \in DOMAIN by_key
                              /\ \A i \in 1..(j - 1) : paths[i] \notin DOMAIN by_key}}

\* the targets of the wikilinks of a document
LinkTargetsAmong(content, ranges) ==
    {LinkTarget(SubSeq(content, ranges[k][1] + 2, ranges[k][2] - 2)) : k \in DOMAIN ranges}

LinkTargetsOf(content) == LinkTargetsAmong(content, WikilinkRanges(content))

LinkTargetsIn(corpus) == UNION {LinkTargetsOf(corpus[p]) : p \in DOMAIN corpus}

\* the keys of self.file_references after _check_broken_wikilinks
file_references(corpus, by_key) ==
    UNION {ReferencedFiles(by_key, possible_paths(t)) : t \in LinkTargetsIn(corpus)}

\* the targets _check_broken_wikilinks reports as broken
BrokenTargets(corpus, by_key) ==
    {t \in LinkTargetsIn(corpus) : ReferencedFiles(by_key, possible_paths(t)) = {}}

entry_points ==
    { <<"d", "e", "v", "l", "o", "g", ".", "m", "d">>,
      <<"R", "E", "A", "D", "M", "E", ".", "m", "d">>,
      <<"i", "n", "d", "e", "x", ".", "m", "d">>,
      <<"0", "0", ".", "0", "0", "_", "i", "n", "d", "e", "x", ".", "m", "d">> }

\* file_path.name
FileName(path) == SubSeq(path, NameStart(path), Len(path))

\* a file _check_orphaned_files passes over: an entry point is part of its
\* name, or its stem ends in "index"
IsEntryPoint(path) ==
    \/ \E entry \in entry_points : Occurs(FileName(path), entry)
    \/ str_endswith(PathStem(path), <<"i", "n", "d", "e", "x">>)

\* _check_orphaned_files: the files it reports
check_orphaned_files(corpus, linked_files) ==
    {p \in DOMAIN corpus : p \notin linked_files /\ ~IsEntryPoint(p)}

(***************************************************************************)
(* validate.py run once over a directory of documents that link to each    *)
(* other.  The documents have no frontmatter and no identifiers, and the   *)
(* directory has no work effort folder: the checks for duplicate ids, for  *)
(* names and for missing index files report nothing.                       *)
(***************************************************************************)
MaxLinkedDocs == 3

SUB_FOO_FLAT_MD == <<"s", "u", "b", "_", "f", "o", "o", ".", "m", "d">>
INDEX_MD == <<"i", "n", "d", "e", "x", ".", "m", "d">>

LinkedPaths == {FOO_LOWER_MD, SUB_FOO_MD, SUB_FOO_FLAT_MD, NOTES_MD, INDEX_MD}

Wikilink(text) == <<"[", "[">> \o text \o <<"]", "]">>

LinkedContents ==
    { <<WORD, "\n">>,
      <<WORD, " ">> \o Wikilink(<<"f", "o", "o">>) \o <<"\n">>,
      Wikilink(<<"s", "u", "b", "/", "f", "o", "o">>) \o <<"\n">>,
      Wikilink(SUB_FOO_FLAT_MD) \o <<"\n">>,
      Wikilink(<<"n", "o", "t", "e", "s", "|", "n">>) \o <<"\n">>,
      Wikilink(<<"m", "i", "s", "s", "i", "n", "g">>) \o <<"\n">> }

InitOrphan ==
    /\ \E present \in {d \in SUBSET LinkedPaths : Cardinality(d) <= MaxLinkedDocs} :
          files \in [present -> LinkedContents]
    /\ lastRun = NotValidated
    /\ prevRun = NotValidated
    /\ nruns = 0
    /\ NamingIdle
    /\ PluginIdle
    /\ IdsIdle
    /\ PollIdle

\* validate_all with the index built from the files in the order rglob
\* yields them; print_results is reached only when no check raised
ValidateLinked(by_key) ==
    /\ lastRun' = [tool |-> "validate", before |-> files,
                   broken |-> BrokenTargets(files, by_key),
                   orphans |-> check_orphaned_files(files, file_references(files, by_key)),
                   crashed |-> check_case_sensitivity(by_key).crashed]
    /\ prevRun' = lastRun
    /\ nruns' = nruns + 1
    /\ UNCHANGED <<files, tree, violations, nfix, wes, created, idgen, poll>>

ValidateOrphans ==
    /\ nruns < MaxRuns
    /\ \E order \in GlobOrders(DOMAIN files) : ValidateLinked(index_markdown_files(order))

NextOrphan == ValidateOrphans

SpecOrphan == InitOrphan /\ [][NextOrphan]_vars

\* the target is the path of the document from the root, with or without
\* its suffix
Addresses(target, path) == target \in {path, WithoutSuffix(path)}

\* one of the forms tried for the target is a lookup key of the document
MayResolveTo(target, path) ==
    \E k \in DOMAIN possible_paths(target) : possible_paths(target)[k] \in LookupKeys(path)

\* C23: validate_all reports a document as orphaned exactly when no wikilink
\* of the corpus resolves to it and its name is no entry point or index: a
\* document another document links to by its path is never reported, even
\* when a further document has the same stem, and a document that is not
\* reported is an entry point or has a wikilink that resolves to it.
C23_OrphanExactlyWhenUnlinked ==
    (lastRun.tool = "validate" /\ ~lastRun.crashed)
    => \A d \in DOMAIN lastRun.before :
          /\ d \in lastRun.orphans
             => /\ ~IsEntryPoint(d)
                /\ \A p \in DOMAIN lastRun.before \ {d} :
                      \A t \in LinkTargetsOf(lastRun.before[p]) : ~Addresses(t, d)
          /\ (d \notin lastRun.orphans /\ ~IsEntryPoint(d))
             => \E t \in LinkTargetsIn(lastRun.before) : MayResolveTo(t, d)

(***************************************************************************)
(* Claims about the frontmatter and the back-link of a ticket (SpecFix).   *)
(***************************************************************************)
\* the lines that start with --- after the first one
DelimitersAfterFirst(content) ==
    {q \in 3..Len(content) : content[q] = "---" /\ content[q - 1] = "\n"}

\* the frontmatter block of a document: from the --- that opens it to the
\* --- that starts the nearest later line, whatever follows that ---
BlockUpTo(content, closes) ==
    IF content = <<>> \/ content[1] # "---" \/ closes = {} THEN <<>>
    ELSE SubSeq(content, 1, Min(closes))

FrontmatterBlock(content) == BlockUpTo(content, DelimitersAfterFirst(content))

HasBrackets(s) == HasSeq(s, <<"[", "[">>) \/ HasSeq(s, <<"]", "]">>)

\* C24: after fix_file of fix-obsidian-links.py the frontmatter block of the
\* document contains no [[ and no ]], also when the document is made of its
\* frontmatter only.
C24_NoBracketsInFrontmatter ==
    lastRun.tool = "fix-obsidian-links"
    => \A p \in DOMAIN lastRun.result : ~HasBrackets(FrontmatterBlock(lastRun.result[p]))

\* the frontmatter of the ticket declares the parent as a plain value
DeclaresParent(content, parent) ==
    HasSeq(FrontmatterBlock(content), <<"parent", ":", " ", parent, "\n">>)

\* the wikilinks to the index document of the work effort, by their place
BackLinksTo(content, targets) ==
    {i \in 1..(Len(content) - 2) :
        content[i] = "[" /\ content[i + 1] = "[" /\ content[i + 2] \in targets}

Count(s, tok) == Cardinality({i \in DOMAIN s : s[i] = tok})

\* what the claim asks of the ticket before and after the pass
ParentLinked(before, after, block) ==
    /\ \E i \in BackLinksTo(after, {WE1_PATH, WE1_STEM}) : i > Len(block)
    /\ ~Has(block, PARENT_LABEL)
    /\ Count(after, PARENT_LABEL) <= Count(before, PARENT_LABEL) + 1
    /\ BackLinksTo(before, {WE1_PATH, WE1_STEM}) # {}
       => Count(after, PARENT_LABEL) = Count(before, PARENT_LABEL)

\* C25: after fix_file on a ticket document whose frontmatter declares a
\* parent work effort that is in the index of the fixer, the body of the
\* ticket holds a wikilink to the index document of the parent, the link
\* inserted is after the closing delimiter of the frontmatter, at most one
\* link is inserted, and none when the ticket already links to the parent.
C25_TicketLinksToParent ==
    (lastRun.tool = "fix-obsidian-links" /\ IndexFile \in DOMAIN lastRun.before)
    => \A p \in {TicketFileD, TicketFileS} \cap DOMAIN lastRun.before :
          DeclaresParent(lastRun.before[p], WE1)
          => ParentLinked(lastRun.before[p], lastRun.result[p],
                          FrontmatterBlock(lastRun.result[p]))

(***************************************************************************)
(* The validator run on what a fixer was given and on what it left.        *)
(***************************************************************************)
\* the broken-link warnings validate.py reports for a corpus
BrokenLinkWarnings(corpus) ==
    ObsidianValidator_check_broken_wikilinks(corpus, SortedFiles(DOMAIN corpus))

\* C27: a fix pass never creates a broken link: validate.py reports no more
\* broken-link warnings for the corpus fix-all.py or fix-links.py computed
\* than for the corpus the fixer was given.
C27_FixCreatesNoBrokenLink ==
    lastRun.tool \in {"fix-links", "fix-all"}
    => Len(BrokenLinkWarnings(lastRun.result)) <= Len(BrokenLinkWarnings(lastRun.before))

(***************************************************************************)
(* plugins/todoist/plugin.py: create_ticket called again and again on one  *)
(* work effort, whose tickets directory may hold files already.            *)
(***************************************************************************)
MaxCreated == 3

UI == <<"U", "I">>
API == <<"A", "P", "I">>
TicketTitles == {UI, API, BANGS}

\* the tickets directories the calls start from: empty, contiguous, with a
\* gap, and with a file that is no ticket
TicketsWith(numbers) ==
    [n \in {TicketFileName(generate_ticket_id(ID_CANONICAL, k), UI) : k \in numbers} |->
        Formatted(SubSeq(n, 1, 12), UI)]
StartingTickets ==
    {TicketsWith(numbers) : numbers \in {{}, {1}, {2}, {1, 3}, {1, 2}}}
    \cup {Put(TicketsWith({1}), <<"n", "o", "t", "e", "s">> \o MD_SUFFIX, Formatted(<<>>, <<>>))}

InitTickets ==
    /\ wes \in {Put(<<>>, ExistingFolder,
                     [files |-> Put(<<>>, ID_CANONICAL \o INDEX_SUFFIX,
                                    Formatted(ID_CANONICAL, DEMO)),
                      tickets |-> t]) : t \in StartingTickets}
    /\ created = NotCalled
    /\ nruns = 0
    /\ LinksIdle
    /\ NamingIdle
    /\ IdsIdle
    /\ PollIdle

\* create_ticket(we_path, we_id, title): what it returns and leaves on disk
TicketCreated(fs, ticket_id, title) ==
    /\ wes' = fs
    /\ created' = [called |-> TRUE, ticket_id |-> ticket_id, title |-> title,
                   path |-> TicketFileName(ticket_id, title),
                   before |-> wes[ExistingFolder].tickets]
    /\ nruns' = nruns + 1
    /\ UNCHANGED <<files, lastRun, prevRun, tree, violations, nfix, idgen, poll>>

CreateTicket ==
    /\ nruns < MaxCreated
    /\ \E title \in TicketTitles :
           TicketCreated(create_ticket(wes, ExistingFolder, ID_CANONICAL, title),
                         NextTicketId(wes[ExistingFolder].tickets, ID_CANONICAL), title)

NextTickets == CreateTicket

SpecTickets == InitTickets /\ [][NextTickets]_vars

\* the ids of the ticket files of a directory, and their sequence numbers
TicketIdsIn(tickets) == {SubSeq(n, 1, 12) : n \in GlobTickets(tickets)}
SequenceNumbersIn(tickets) == {ToInt(SubSeq(n, 10, 12)) : n \in GlobTickets(tickets)}

\* C28: for any sequence of create_ticket calls on a work effort, from any
\* tickets directory (numbers with gaps included), the id of the ticket a
\* call creates differs from the id of every ticket file the directory held
\* before the call, and on a directory whose tickets are numbered 001..k
\* (none when it is empty) the call yields the number k + 1.
C28_NewTicketIdIsUnused ==
    created.called
    => /\ created.ticket_id \notin TicketIdsIn(created.before)
       /\ SequenceNumbersIn(created.before) = 1..Cardinality(GlobTickets(created.before))
          => created.ticket_id
                = generate_ticket_id(ID_CANONICAL, Cardinality(GlobTickets(created.before)) + 1)

(***************************************************************************)
(* create_work_effort for tasks without an id, under generated ids that    *)
(* may repeat (SpecPlugin).                                                *)
(***************************************************************************)
\* the call created a work effort under the id generate_we_id returned
CreatedUnderGeneratedId(call) ==
    /\ call.called
    /\ ~call.raised
    /\ search_we_id(SearchText(call.source_task)) = <<>>

\* the ids the index files of a directory declare, folder by folder
DeclaredIds(dir, folder) == {dir[folder].files[f].id : f \in DOMAIN dir[folder].files}
FoldersDeclaring(dir, id) == {n \in DOMAIN dir : id \in DeclaredIds(dir, n)}

\* the index file the call wrote was there before the call
IndexOverwritten(call) ==
    /\ call.folder_path \in DOMAIN call.before
    /\ call.index_path \in DOMAIN call.before[call.folder_path].files

\* C29: a create_work_effort call for a task that references no work effort,
\* whatever id generate_we_id returns (the four random characters may repeat
\* on the same date), never writes over the index file of a work effort that
\* existed before the call and never leaves two work efforts declaring the
\* same id.
C29_RepeatedSuffixKeepsWorkEffortsApart ==
    CreatedUnderGeneratedId(created)
    => /\ ~IndexOverwritten(created)
       /\ Cardinality(FoldersDeclaring(wes, created.we_id)) = 1

(***************************************************************************)
(* poll.py without --once: process_tasks called again after every sleep.   *)
(* Todoist returns the tasks that still carry the trigger label; made      *)
(* tells, task by task, whether an earlier poll created for it.  The work   *)
(* efforts directory is empty when the polling starts.                     *)
(***************************************************************************)
MaxPolls == 2

InitPolls ==
    /\ wes = <<>>
    /\ \E remote \in TodoistTasks :
          poll = [pc |-> "fetch", remote |-> remote, tasks |-> <<>>, i |-> 0,
                  processed |-> 0, log |-> <<>>,
                  made |-> [k \in DOMAIN remote |-> FALSE], polls |-> 1]
    /\ created = NotCalled
    /\ nruns = 0
    /\ LinksIdle
    /\ NamingIdle
    /\ IdsIdle

\* the tasks get_tasks(label=trigger_label) will return at the next poll
StillLabelled(remote) ==
    SelectSeq([k \in DOMAIN remote |-> k], LAMBDA k : remote[k].labelled)

CreationDone(log, k) == \E j \in Attempts(log, k, "create") : log[j].result = "done"

\* time.sleep(poll_interval), then the next turn of `while True`
NextPollOf(p, kept) ==
    [pc |-> "fetch", remote |-> [j \in DOMAIN kept |-> p.remote[kept[j]]], tasks |-> <<>>,
     i |-> 0, processed |-> 0, log |-> <<>>,
     made |-> [j \in DOMAIN kept |-> p.made[kept[j]] \/ CreationDone(p.log, kept[j])],
     polls |-> p.polls + 1]

PollAgain ==
    /\ poll.pc = "returned"
    /\ poll.polls < MaxPolls
    /\ poll' = NextPollOf(poll, StillLabelled(poll.remote))
    /\ UNCHANGED <<wes, created>>
    /\ PollFrame

NextPolls == FetchTasks \/ CreateStep \/ FeedbackStep \/ CleanupStep \/ PollAgain

SpecPolls == InitPolls /\ [][NextPolls]_vars

\* create_work_effort has just returned a work effort whose folder is new
NewFolderCreated(p, call) ==
    /\ p.pc = "feedback"
    /\ call.folder_path \notin DOMAIN call.before

\* C30: across any sequence of polls in which posting the feedback or
\* removing the trigger label may fail, each Todoist task gives rise to at
\* most one work effort: no poll creates a new work effort folder for a task
\* for which an earlier poll created a work effort.
C30_OneWorkEffortPerTask ==
    NewFolderCreated(poll, created) => ~poll.made[poll.i]

====
